---- MODULE Spec2Model ----
(***************************************************************************)
(* Bill normalization and reconciliation: AIExtractor.extract's            *)
(* post-processing of the parsed JSON response (backend/extraction/        *)
(* ai_extractor.py), Validator.validate (backend/validation/validator.py)  *)
(* and InventoryAnalyzer.analyze (backend/analysis/inventory_analyzer.py), *)
(* driven as the endpoints of backend/main.py drive them.                  *)
(*                                                                         *)
(* Representation.  A Python str is a sequence of one-character strings.   *)
(* A JSON value of the response is a record [t, v]: t is "num", "str",     *)
(* "null" or "missing" (key absent); v is the number, or the characters.   *)
(* Quantities and discount percentages are integers; rates and amounts     *)
(* are integers counting hundredths of a currency unit, so that the        *)
(* tolerance 1.0 of the phantom-discount test is 100.  Float rounding is   *)
(* not modelled: the input pools keep every product and quotient exact.    *)
(***************************************************************************)
EXTENDS Integers, Sequences, FiniteSets, TLC

VARIABLES
    response,       \* process_document: `data`, the parsed JSON response
    extracted,      \* process_document: extracted_data, or None
    purchase_raw,   \* the responses behind purchase_data, bill by bill
    sales_raw,      \* the responses behind sales_data, bill by bill
    purchase_data,  \* analyze_bills: purchase_data
    sales_data,     \* analyze_bills: sales_data
    analysis,       \* analyze_bills: analysis (InventoryAnalysis), or None
    calls,          \* the calls of inventory_analyzer.analyze so far, in order
    validation,     \* process_document: validation_result, or None
    date_arg,       \* _normalize_date: its argument date_str
    normalized,     \* _normalize_date: what it returned, or NotCalled
    users_collection,   \* auth: the one user's document in the users collection
    logins,         \* auth: the login requests in flight or answered
    utcnow,         \* auth: datetime.utcnow(), in hours
    tokens,         \* auth: the logins answered with a token since the session last ended
    request,        \* analyze_bills: purchase_files, sales_files and auto_detect, or None
    failed_files,   \* analyze_bills: failed_files
    handled         \* analyze_bills: the files whose turn of the loop is over

vars == <<response, extracted, purchase_raw, sales_raw,
          purchase_data, sales_data, analysis, calls, validation,
          date_arg, normalized, users_collection, logins, utcnow,
          tokens, request, failed_files, handled>>

None == [t |-> "null", v |-> 0]

\* No call yet (None is a value _normalize_date returns)
NotCalled == [t |-> "not called", v |-> 0]

(***************************************************************************)
(* Python str operations                                                   *)
(***************************************************************************)
UPPER == <<"A","B","C","D","E","F","G","H","I","J","K","L","M",
           "N","O","P","Q","R","S","T","U","V","W","X","Y","Z">>

LOWER == <<"a","b","c","d","e","f","g","h","i","j","k","l","m",
           "n","o","p","q","r","s","t","u","v","w","x","y","z">>

WHITESPACE == {" ", "\t", "\n"}

LowerChar(c) ==
    IF \E i \in 1..26 : UPPER[i] = c
    THEN LOWER[CHOOSE i \in 1..26 : UPPER[i] = c]
    ELSE c

\* str.lower()
StrLower(s) == [i \in 1..Len(s) |-> LowerChar(s[i])]

\* str.split(): the maximal runs of non-whitespace characters, in order
RECURSIVE StrSplit(_)
StrSplit(s) ==
    IF s = <<>> THEN <<>>
    ELSE IF Head(s) \in WHITESPACE THEN StrSplit(Tail(s))
    ELSE LET stops == {i \in 1..Len(s) : s[i] \in WHITESPACE}
             n == IF stops = {} THEN Len(s)
                  ELSE (CHOOSE i \in stops : \A j \in stops : i <= j) - 1
         IN  <<SubSeq(s, 1, n)>> \o StrSplit(SubSeq(s, n + 1, Len(s)))

\* ' '.join(parts)
RECURSIVE StrJoin(_)
StrJoin(parts) ==
    IF parts = <<>> THEN <<>>
    ELSE IF Len(parts) = 1 THEN parts[1]
    ELSE parts[1] \o <<" ">> \o StrJoin(Tail(parts))

\* str.strip()
RECURSIVE StrStrip(_)
StrStrip(s) ==
    IF s = <<>> THEN <<>>
    ELSE IF s[1] \in WHITESPACE THEN StrStrip(Tail(s))
    ELSE IF s[Len(s)] \in WHITESPACE THEN StrStrip(SubSeq(s, 1, Len(s) - 1))
    ELSE s

\* sub in s
StrContains(s, sub) ==
    \E i \in 0..(Len(s) - Len(sub)) :
        \A k \in 1..Len(sub) : s[i + k] = sub[k]

(***************************************************************************)
(* JSON values of the response and Python's conversions of them            *)
(***************************************************************************)
Num(x) == [t |-> "num", v |-> x]
Str(s) == [t |-> "str", v |-> s]
Missing == [t |-> "missing", v |-> 0]

\* bool(x) is False: None, 0, ""
Falsy(j) ==
    \/ j.t = "null"
    \/ j.t = "num" /\ j.v = 0
    \/ j.t = "str" /\ j.v = <<>>

\* d.get(key, default): the default only when the key is absent
Get(j, default) == IF j.t = "missing" THEN default ELSE j

\* d.get(key, default) or default
GetOr(j, default) == IF Falsy(Get(j, default)) THEN default ELSE Get(j, default)

\* float(x) raises for a str that is no number (the pools hold no numeric str)
FloatRaises(j) == j.t = "str"

Abs(x) == IF x < 0 THEN 0 - x ELSE x

(***************************************************************************)
(* AIExtractor.extract, from the parsed response on                        *)
(***************************************************************************)
CHARGE_KEYWORDS == {
    <<"p","a","c","k","i","n","g">>,
    <<"f","o","r","w","a","r","d","i","n","g">>,
    <<"f","r","e","i","g","h","t">>,
    <<"s","h","i","p","p","i","n","g">>,
    <<"h","a","n","d","l","i","n","g">>,
    <<"d","e","l","i","v","e","r","y">>,
    <<"t","r","a","n","s","p","o","r","t">>,
    <<"t","r","a","n","s","p","o","r","t","a","t","i","o","n">>,
    <<"c","o","u","r","i","e","r">>,
    <<"s","e","r","v","i","c","e"," ","c","h","a","r","g","e">>,
    <<"s","e","r","v","i","c","e"," ","f","e","e">>,
    <<"i","n","s","u","r","a","n","c","e">>,
    <<"l","o","a","d","i","n","g">>,
    <<"u","n","l","o","a","d","i","n","g">>,
    <<"c","h","a","r","g","e","s">>,
    <<"c","h","a","r","g","e">>,
    <<"p","&","f">>,
    <<"p"," ","&"," ","f">> }

\* A slip: the name compared with the keywords as a whole
is_charge_WholeName(item_name) == StrLower(item_name) \in CHARGE_KEYWORDS

\* is_charge(item_name), for a str
is_charge(item_name) ==
    LET name_lower == StrLower(item_name)
    IN  \E kw \in CHARGE_KEYWORDS : StrContains(name_lower, kw)

PHANTOM_TOLERANCE == 100

UNKNOWN == <<"U","n","k","n","o","w","n">>

\* A slip: a quantity of 0 is taken as given
LineQty_AsGiven(item) ==
    IF item.quantity.t = "num" THEN item.quantity.v ELSE 1

\* The values one turn of the line-item loop holds before the backfill
LineQty(item) == GetOr(item.quantity, Num(1)).v
LineRate(item) == GetOr(item.rate, Num(0)).v
LineDeclaredDiscount(item) == GetOr(item.discount_percent, Num(0)).v
LineRawAmount(item) == GetOr(item.amount, Num(0)).v
LineName(item) == Get(item.item_name, Str(UNKNOWN))

\* A slip: the backfill without the discount
BackfillAmount_Undiscounted(qty, rate, discount_percent, amount) ==
    IF amount = 0 /\ rate > 0
    THEN qty * rate
    ELSE amount

\* Amount backfill: amount == 0 and rate > 0
BackfillAmount(qty, rate, discount_percent, amount) ==
    IF amount = 0 /\ rate > 0
    THEN IF discount_percent > 0
         THEN (qty * rate * (100 - discount_percent)) \div 100
         ELSE qty * rate
    ELSE amount

\* A slip: <= at the tolerance
PhantomDiscount_Inclusive(qty, rate, discount_percent, amount) ==
    IF amount > 0 /\ rate > 0 /\ discount_percent > 0
    THEN IF Abs(qty * rate - amount) <= PHANTOM_TOLERANCE
         THEN 0
         ELSE discount_percent
    ELSE discount_percent

\* Phantom discount check, against the amount after the backfill
PhantomDiscount(qty, rate, discount_percent, amount) ==
    IF amount > 0 /\ rate > 0 /\ discount_percent > 0
    THEN IF Abs(qty * rate - amount) < PHANTOM_TOLERANCE
         THEN 0
         ELSE discount_percent
    ELSE discount_percent

LineAmount(item) ==
    BackfillAmount(LineQty(item), LineRate(item),
                   LineDeclaredDiscount(item), LineRawAmount(item))

\* A slip: the check against the amount of the response, before the backfill
LineDiscount_BeforeBackfill(item) ==
    PhantomDiscount(LineQty(item), LineRate(item),
                    LineDeclaredDiscount(item), LineRawAmount(item))

LineDiscount(item) ==
    PhantomDiscount(LineQty(item), LineRate(item),
                    LineDeclaredDiscount(item), LineAmount(item))

\* A turn of the line-item loop raises: float() of a non-number, or
\* is_charge of a name that is no str (None.lower())
LineRaises(item) ==
    \/ FloatRaises(GetOr(item.quantity, Num(1)))
    \/ FloatRaises(GetOr(item.rate, Num(0)))
    \/ FloatRaises(GetOr(item.discount_percent, Num(0)))
    \/ FloatRaises(GetOr(item.amount, Num(0)))
    \/ LineName(item).t # "str"

LineIsCharge(item) == is_charge(LineName(item).v)

MkLineItem(item) ==
    [item_name |-> LineName(item).v,
     quantity |-> LineQty(item),
     rate |-> LineRate(item),
     discount_percent |-> LineDiscount(item),
     amount |-> LineAmount(item)]

\* AdditionalCharge(charge_name, amount): quantity and rate default to 0
MkChargeFromLine(item) ==
    [charge_name |-> LineName(item).v,
     amount |-> LineAmount(item),
     quantity |-> 0,
     rate |-> 0]

\* A slip: no reclassification, every entry becomes a line item
RECURSIVE ExtractLineItems_KeepingCharges(_)
ExtractLineItems_KeepingCharges(items) ==
    IF items = <<>> THEN <<>>
    ELSE <<MkLineItem(Head(items))>> \o ExtractLineItems_KeepingCharges(Tail(items))

\* result.line_items after the line-item loop
RECURSIVE ExtractLineItems(_)
ExtractLineItems(items) ==
    IF items = <<>> THEN <<>>
    ELSE (IF LineIsCharge(Head(items)) THEN <<>> ELSE <<MkLineItem(Head(items))>>)
         \o ExtractLineItems(Tail(items))

\* result.additional_charges after the line-item loop
RECURSIVE ReclassifiedCharges(_)
ReclassifiedCharges(items) ==
    IF items = <<>> THEN <<>>
    ELSE (IF LineIsCharge(Head(items)) THEN <<MkChargeFromLine(Head(items))>> ELSE <<>>)
         \o ReclassifiedCharges(Tail(items))

ChargeRaises(charge) ==
    \/ FloatRaises(GetOr(charge.amount, Num(0)))
    \/ FloatRaises(GetOr(charge.quantity, Num(0)))
    \/ FloatRaises(GetOr(charge.rate, Num(0)))

\* A slip: the amount is not looked at
ChargeKept_AnyAmount(charge) ==
    ~Falsy(Get(charge.charge_name, Str(<<>>)))

ChargeKept(charge) ==
    /\ ~Falsy(Get(charge.charge_name, Str(<<>>)))
    /\ GetOr(charge.amount, Num(0)).v > 0

\* what the additional_charges loop appends
RECURSIVE ExtractCharges(_)
ExtractCharges(charges) ==
    IF charges = <<>> THEN <<>>
    ELSE (IF ChargeKept(Head(charges))
          THEN <<[charge_name |-> Get(Head(charges).charge_name, Str(<<>>)).v,
                  amount |-> GetOr(Head(charges).amount, Num(0)).v,
                  quantity |-> GetOr(Head(charges).quantity, Num(0)).v,
                  rate |-> GetOr(Head(charges).rate, Num(0)).v]>>
          ELSE <<>>)
         \o ExtractCharges(Tail(charges))

HeaderRaises(data) ==
    \E j \in {data.cgst, data.sgst, data.igst, data.subtotal, data.total} :
        FloatRaises(GetOr(j, Num(0)))

\* ExtractedData() plus the note of the except branch
FailedExtraction ==
    [invoice_number |-> Str(<<>>), date |-> Str(<<>>), vendor_name |-> Str(<<>>),
     line_items |-> <<>>, additional_charges |-> <<>>,
     subtotal |-> 0, cgst |-> 0, sgst |-> 0, igst |-> 0, tax |-> 0, total |-> 0,
     extraction_notes |-> <<"Extraction error">>]

\* The entries converted before the first that raises
RECURSIVE UntilRaise(_)
UntilRaise(items) ==
    IF items = <<>> THEN <<>>
    ELSE IF "item_name" \in DOMAIN Head(items) /\ LineRaises(Head(items)) THEN <<>>
    ELSE IF "charge_name" \in DOMAIN Head(items) /\ ChargeRaises(Head(items)) THEN <<>>
    ELSE <<Head(items)>> \o UntilRaise(Tail(items))

\* A slip: the except branch returns the result built so far
extract_KeepingConverted(data) ==
    IF HeaderRaises(data) THEN FailedExtraction
    ELSE [invoice_number |-> Get(data.invoice_number, Str(<<>>)),
          date |-> Get(data.date, Str(<<>>)),
          vendor_name |-> Get(data.vendor_name, Str(<<>>)),
          line_items |-> ExtractLineItems(UntilRaise(data.line_items)),
          additional_charges |->
              ReclassifiedCharges(UntilRaise(data.line_items))
              \o (IF \E i \in 1..Len(data.line_items) : LineRaises(data.line_items[i])
                  THEN <<>>
                  ELSE ExtractCharges(UntilRaise(data.additional_charges))),
          subtotal |-> GetOr(data.subtotal, Num(0)).v,
          cgst |-> GetOr(data.cgst, Num(0)).v,
          sgst |-> GetOr(data.sgst, Num(0)).v,
          igst |-> GetOr(data.igst, Num(0)).v,
          tax |-> GetOr(data.cgst, Num(0)).v + GetOr(data.sgst, Num(0)).v
                  + GetOr(data.igst, Num(0)).v,
          total |-> GetOr(data.total, Num(0)).v,
          extraction_notes |->
              IF \/ \E i \in 1..Len(data.line_items) : LineRaises(data.line_items[i])
                 \/ \E i \in 1..Len(data.additional_charges) :
                        ChargeRaises(data.additional_charges[i])
              THEN <<"Extracted using Groq AI", "Extraction error">>
              ELSE <<"Extracted using Groq AI">>]

extract(data) ==
    IF \/ HeaderRaises(data)
       \/ \E i \in 1..Len(data.line_items) : LineRaises(data.line_items[i])
       \/ \E i \in 1..Len(data.additional_charges) :
              ChargeRaises(data.additional_charges[i])
    THEN FailedExtraction
    ELSE [invoice_number |-> Get(data.invoice_number, Str(<<>>)),
          date |-> Get(data.date, Str(<<>>)),
          vendor_name |-> Get(data.vendor_name, Str(<<>>)),
          line_items |-> ExtractLineItems(data.line_items),
          additional_charges |-> ReclassifiedCharges(data.line_items)
                                 \o ExtractCharges(data.additional_charges),
          subtotal |-> GetOr(data.subtotal, Num(0)).v,
          cgst |-> GetOr(data.cgst, Num(0)).v,
          sgst |-> GetOr(data.sgst, Num(0)).v,
          igst |-> GetOr(data.igst, Num(0)).v,
          tax |-> GetOr(data.cgst, Num(0)).v + GetOr(data.sgst, Num(0)).v
                  + GetOr(data.igst, Num(0)).v,
          total |-> GetOr(data.total, Num(0)).v,
          extraction_notes |-> <<"Extracted using Groq AI">>]

(***************************************************************************)
(* Validator.validate: a message is its line item, when it has one, and    *)
(* its text                                                                *)
(***************************************************************************)
\* _validate_mandatory_fields: the warnings
MandatoryWarnings(data) ==
    (IF Falsy(data.invoice_number)
     THEN <<<<"Invoice/Bill number is missing">>>> ELSE <<>>)
    \o (IF Falsy(data.date) THEN <<<<"Document date is missing">>>> ELSE <<>>)
    \o (IF Falsy(data.vendor_name)
        THEN <<<<"Vendor/Supplier name could not be identified">>>> ELSE <<>>)

\* _validate_mandatory_fields: the error
MandatoryErrors(data) ==
    IF data.line_items = <<>>
    THEN <<<<"No line items could be extracted">>>> ELSE <<>>

\* A slip: a negative rate counts as a missing price
LineItemErrors_RateUnchecked(item, i) ==
    (IF item.quantity < 0
     THEN <<<<"Line item", i, "Quantity cannot be negative">>>> ELSE <<>>)
    \o (IF item.amount < 0
        THEN <<<<"Line item", i, "Amount cannot be negative">>>> ELSE <<>>)

\* The errors one turn of the loop of _validate_line_items adds
LineItemErrors(item, i) ==
    (IF item.quantity < 0
     THEN <<<<"Line item", i, "Quantity cannot be negative">>>> ELSE <<>>)
    \o (IF item.rate < 0
        THEN <<<<"Line item", i, "Rate cannot be negative">>>> ELSE <<>>)
    \o (IF item.amount < 0
        THEN <<<<"Line item", i, "Amount cannot be negative">>>> ELSE <<>>)

\* The warning one turn of the loop adds
LineItemWarnings(item, i) ==
    IF item.item_name = <<>> \/ StrStrip(item.item_name) = <<>>
    THEN <<<<"Line item", i, "Item name is empty">>>> ELSE <<>>

\* The loop of _validate_line_items from line item i on
RECURSIVE ErrorsFrom(_, _)
ErrorsFrom(line_items, i) ==
    IF i > Len(line_items) THEN <<>>
    ELSE LineItemErrors(line_items[i], i) \o ErrorsFrom(line_items, i + 1)

RECURSIVE WarningsFrom(_, _)
WarningsFrom(line_items, i) ==
    IF i > Len(line_items) THEN <<>>
    ELSE LineItemWarnings(line_items[i], i) \o WarningsFrom(line_items, i + 1)

\* items_without_prices > 0 and items_without_prices == len(data.line_items)
NoPriceWarning(line_items) ==
    IF line_items # <<>> /\ \A i \in 1..Len(line_items) : line_items[i].rate = 0
    THEN <<<<"No price data could be extracted from the document">>>> ELSE <<>>

_validate_line_items(data) ==
    [errors |-> ErrorsFrom(data.line_items, 1),
     warnings |-> WarningsFrom(data.line_items, 1) \o NoPriceWarning(data.line_items)]

\* Validator.validate(data): the ValidationResult
validate(data) ==
    LET errors == MandatoryErrors(data) \o _validate_line_items(data).errors
    IN  [is_valid |-> errors = <<>>,
         errors |-> errors,
         warnings |-> MandatoryWarnings(data) \o _validate_line_items(data).warnings]

(***************************************************************************)
(* InventoryAnalyzer._normalize_date: datetime.strptime over the seven     *)
(* formats, strftime("%d/%m/%Y"), and the fallback re.match                *)
(***************************************************************************)
DIGITS == <<"0","1","2","3","4","5","6","7","8","9">>

IsDigit(c) == \E i \in 1..10 : DIGITS[i] = c

DigitVal(c) == (CHOOSE i \in 1..10 : DIGITS[i] = c) - 1

AllDigits(s) == s # <<>> /\ \A i \in 1..Len(s) : IsDigit(s[i])

RECURSIVE IntOf(_)
IntOf(s) ==
    IF s = <<>> THEN 0
    ELSE IntOf(SubSeq(s, 1, Len(s) - 1)) * 10 + DigitVal(s[Len(s)])

\* calendar.month_abbr and calendar.month_name, lower-cased (the regex of a
\* directive is compiled with re.IGNORECASE)
MONTH_ABBR == <<
    <<"j","a","n">>,
    <<"f","e","b">>,
    <<"m","a","r">>,
    <<"a","p","r">>,
    <<"m","a","y">>,
    <<"j","u","n">>,
    <<"j","u","l">>,
    <<"a","u","g">>,
    <<"s","e","p">>,
    <<"o","c","t">>,
    <<"n","o","v">>,
    <<"d","e","c">> >>

MONTH_NAME == <<
    <<"j","a","n","u","a","r","y">>,
    <<"f","e","b","r","u","a","r","y">>,
    <<"m","a","r","c","h">>,
    <<"a","p","r","i","l">>,
    <<"m","a","y">>,
    <<"j","u","n","e">>,
    <<"j","u","l","y">>,
    <<"a","u","g","u","s","t">>,
    <<"s","e","p","t","e","m","b","e","r">>,
    <<"o","c","t","o","b","e","r">>,
    <<"n","o","v","e","m","b","e","r">>,
    <<"d","e","c","e","m","b","e","r">> >>

MonthIndex(names, s) ==
    IF \E i \in 1..12 : names[i] = StrLower(s)
    THEN CHOOSE i \in 1..12 : names[i] = StrLower(s)
    ELSE -1

\* The value a directive reads from the text between two separators, -1 when
\* its regex does not match the whole of it:
\*   %d  3[0-1]|[1-2]\d|0[1-9]|[1-9]| [1-9]     %m  1[0-2]|0[1-9]|[1-9]
\*   %Y  \d\d\d\d      %y  \d\d (69-99 -> 19xx, 00-68 -> 20xx)
DirectiveValue(directive, s) ==
    CASE directive = "%d" ->
           IF AllDigits(s) /\ Len(s) <= 2 /\ IntOf(s) \in 1..31 THEN IntOf(s)
           ELSE IF Len(s) = 2 /\ s[1] = " " /\ IsDigit(s[2]) /\ DigitVal(s[2]) >= 1
                THEN DigitVal(s[2])
           ELSE -1
      [] directive = "%m" ->
           IF AllDigits(s) /\ Len(s) <= 2 /\ IntOf(s) \in 1..12 THEN IntOf(s) ELSE -1
      [] directive = "%Y" ->
           IF AllDigits(s) /\ Len(s) = 4 THEN IntOf(s) ELSE -1
      [] directive = "%y" ->
           IF AllDigits(s) /\ Len(s) = 2
           THEN (IF IntOf(s) <= 68 THEN 2000 + IntOf(s) ELSE 1900 + IntOf(s))
           ELSE -1
      [] directive = "%b" -> MonthIndex(MONTH_ABBR, s)
      [] directive = "%B" -> MonthIndex(MONTH_NAME, s)

\* The pieces of s between the occurrences of one separator character
RECURSIVE SplitOn(_, _)
SplitOn(s, sep) ==
    LET at == {i \in 1..Len(s) : s[i] = sep}
    IN  IF at = {} THEN <<s>>
        ELSE LET i == CHOOSE k \in at : \A j \in at : k <= j
             IN  <<SubSeq(s, 1, i - 1)>> \o SplitOn(SubSeq(s, i + 1, Len(s)), sep)

\* formats: each directive, separator, directive, separator, directive; the
\* separator " " of a format is compiled to \s+
DATE_FORMATS == <<
    <<"%d", "/", "%m", "/", "%Y">>,
    <<"%d", "-", "%m", "-", "%Y">>,
    <<"%Y", "-", "%m", "-", "%d">>,
    <<"%d", " ", "%b", " ", "%Y">>,
    <<"%d", " ", "%B", " ", "%Y">>,
    <<"%d", "-", "%b", "-", "%y">>,
    <<"%d", "-", "%b", "-", "%Y">> >>

IsLeap(y) == (y % 4 = 0 /\ y % 100 # 0) \/ y % 400 = 0

DaysInMonth(m, y) ==
    IF m = 2 THEN (IF IsLeap(y) THEN 29 ELSE 28)
    ELSE IF m \in {4, 6, 9, 11} THEN 30 ELSE 31

NoDate == [ok |-> FALSE, d |-> 0, m |-> 0, y |-> 0]

FieldOf(fmt, pieces, directives) ==
    IF \E k \in {1, 3, 5} : fmt[k] \in directives
    THEN LET k == CHOOSE k \in {1, 3, 5} : fmt[k] \in directives
         IN  DirectiveValue(fmt[k], pieces[(k + 1) \div 2])
    ELSE -1

\* datetime.strptime(date_str, fmt): NoDate for ValueError
strptime(date_str, fmt) ==
    LET pieces == IF fmt[2] = " " THEN StrSplit(date_str) ELSE SplitOn(date_str, fmt[2])
        d == FieldOf(fmt, pieces, {"%d"})
        m == FieldOf(fmt, pieces, {"%m", "%b", "%B"})
        y == FieldOf(fmt, pieces, {"%Y", "%y"})
    IN  IF Len(pieces) # 3 THEN NoDate
        ELSE IF d = -1 \/ m = -1 \/ y = -1 THEN NoDate
        ELSE IF y < 1 \/ d > DaysInMonth(m, y) THEN NoDate
        ELSE [ok |-> TRUE, d |-> d, m |-> m, y |-> y]

RECURSIVE Decimal(_)
Decimal(n) ==
    IF n < 10 THEN <<DIGITS[n + 1]>>
    ELSE Decimal(n \div 10) \o <<DIGITS[(n % 10) + 1]>>

TwoDigits(n) == <<DIGITS[(n \div 10) + 1], DIGITS[(n % 10) + 1]>>

\* dt.strftime("%d/%m/%Y")
strftime(dt) == TwoDigits(dt.d) \o <<"/">> \o TwoDigits(dt.m) \o <<"/">> \o Decimal(dt.y)

\* re.match(r'\d{1,2}[/\-\.]\d{1,2}[/\-\.]\d{2,4}', date_str): a match of a prefix
LooksLikeDate(date_str) ==
    \E a \in 1..2, b \in 1..2 :
        /\ Len(date_str) >= a + b + 4
        /\ AllDigits(SubSeq(date_str, 1, a))
        /\ date_str[a + 1] \in {"/", "-", "."}
        /\ AllDigits(SubSeq(date_str, a + 2, a + 1 + b))
        /\ date_str[a + b + 2] \in {"/", "-", "."}
        /\ AllDigits(SubSeq(date_str, a + b + 3, a + b + 4))

\* The first format, from position k on, that parses; 0 when none does
RECURSIVE FirstFormat(_, _)
FirstFormat(date_str, k) ==
    IF k > Len(DATE_FORMATS) THEN 0
    ELSE IF strptime(date_str, DATE_FORMATS[k]).ok THEN k
    ELSE FirstFormat(date_str, k + 1)

\* A slip: what no format parses is returned as it is
_normalize_date_Unchecked(date_str) ==
    IF date_str = <<>> THEN None
    ELSE LET stripped == StrStrip(date_str)
             k == FirstFormat(stripped, 1)
         IN  IF k # 0 THEN Str(strftime(strptime(stripped, DATE_FORMATS[k])))
             ELSE Str(stripped)

\* _normalize_date(date_str) for a str: the normalized str, or None
_normalize_date(date_str) ==
    IF date_str = <<>> THEN None
    ELSE LET stripped == StrStrip(date_str)
             k == FirstFormat(stripped, 1)
         IN  IF k # 0 THEN Str(strftime(strptime(stripped, DATE_FORMATS[k])))
             ELSE IF LooksLikeDate(stripped) THEN Str(stripped)
             ELSE None

\* _extract_dates(bill_data): the list of normalized date strs
RECURSIVE _extract_dates(_)
_extract_dates(bill_data) ==
    IF bill_data = <<>> THEN <<>>
    ELSE LET date_str == Head(bill_data).date
             usable == /\ ~Falsy(date_str)
                       /\ StrStrip(date_str.v) # <<>>
                       /\ ~Falsy(_normalize_date(date_str.v))
         IN  (IF usable THEN <<_normalize_date(date_str.v).v>> ELSE <<>>)
             \o _extract_dates(Tail(bill_data))

\* Code points order the characters of a str
CODE_POINTS == <<"\t", "\n", " ", "&", "-", ".", "/">> \o DIGITS \o UPPER \o LOWER

Ord(c) == CHOOSE i \in 1..Len(CODE_POINTS) : CODE_POINTS[i] = c

\* a < b for two strs
RECURSIVE StrLess(_, _)
StrLess(a, b) ==
    IF b = <<>> THEN FALSE
    ELSE IF a = <<>> THEN TRUE
    ELSE IF a[1] = b[1] THEN StrLess(Tail(a), Tail(b))
    ELSE Ord(a[1]) < Ord(b[1])

\* min(dates) and max(dates) of a non-empty list of strs
RECURSIVE StrMin(_)
StrMin(dates) ==
    IF Len(dates) = 1 THEN dates[1]
    ELSE LET rest == StrMin(Tail(dates))
         IN  IF StrLess(rest, dates[1]) THEN rest ELSE dates[1]

RECURSIVE StrMax(_)
StrMax(dates) ==
    IF Len(dates) = 1 THEN dates[1]
    ELSE LET rest == StrMax(Tail(dates))
         IN  IF StrLess(dates[1], rest) THEN rest ELSE dates[1]

\* A slip: no guard for a set without dates, the range of no date is a
\* pair of empty strings
DateRange_OfNothing(dates) ==
    IF dates = <<>> THEN <<Str(<<>>), Str(<<>>)>>
    ELSE <<Str(StrMin(dates)), Str(StrMax(dates))>>

\* (min(dates), max(dates)), or the default (None, None)
DateRange(dates) ==
    IF dates = <<>> THEN <<None, None>>
    ELSE <<Str(StrMin(dates)), Str(StrMax(dates))>>

\* A slip: a warning only when both ends differ
_validate_date_ranges_BothEnds(purchase_range, sales_range) ==
    LET p_start == purchase_range[1]
        p_end == purchase_range[2]
        s_start == sales_range[1]
        s_end == sales_range[2]
    IN  IF Falsy(p_start) \/ Falsy(s_start) THEN <<>>
        ELSE IF p_start # s_start /\ p_end # s_end
             THEN <<"DATE MISMATCH WARNING", p_start.v, p_end.v, s_start.v, s_end.v>>
             ELSE <<>>

\* _validate_date_ranges: the warning names the four ends; "" is <<>>
_validate_date_ranges(purchase_range, sales_range) ==
    LET p_start == purchase_range[1]
        p_end == purchase_range[2]
        s_start == sales_range[1]
        s_end == sales_range[2]
    IN  IF Falsy(p_start) \/ Falsy(s_start) THEN <<>>
        ELSE IF p_start # s_start \/ p_end # s_end
             THEN <<"DATE MISMATCH WARNING", p_start.v, p_end.v, s_start.v, s_end.v>>
             ELSE <<>>

(***************************************************************************)
(* InventoryAnalyzer.analyze                                               *)
(***************************************************************************)
LOW_STOCK_THRESHOLD == 10

TOP_SELLING == 5

UNKNOWN_ITEM == <<"U","n","k","n","o","w","n"," ","I","t","e","m">>

\* _normalize_item_name(name)
_normalize_item_name(name) ==
    IF name = <<>> THEN UNKNOWN_ITEM
    ELSE StrJoin(StrSplit(StrStrip(StrLower(name))))

\* InventoryItem(item_name=name)
InventoryItem(name) ==
    [item_name |-> name, purchased_qty |-> 0, sold_qty |-> 0, surplus_deficit |-> 0,
     status |-> "balanced", purchased_value |-> 0, sold_value |-> 0]

\* item_map is a dict: its entries in insertion order
MapIndex(item_map, name) ==
    IF \E i \in 1..Len(item_map) : item_map[i].item_name = name
    THEN CHOOSE i \in 1..Len(item_map) : item_map[i].item_name = name
    ELSE 0

\* A slip: a new item goes to the front of item_map
MapWith_AtFront(item_map, name) ==
    IF MapIndex(item_map, name) = 0 THEN <<InventoryItem(name)>> \o item_map
    ELSE item_map

MapWith(item_map, name) ==
    IF MapIndex(item_map, name) = 0 THEN Append(item_map, InventoryItem(name))
    ELSE item_map

\* A slip: the amount added whatever its sign
AddPurchasedLine_AnyAmount(acc, item) ==
    LET name == _normalize_item_name(item.item_name)
        map == MapWith(acc.item_map, name)
        i == MapIndex(map, name)
    IN  [item_map |-> [map EXCEPT ![i].purchased_qty = @ + item.quantity,
                                  ![i].purchased_value = @ + item.amount],
         total |-> acc.total + item.amount]

\* One turn of the inner loop over a purchase bill's line items; acc is
\* item_map with result.total_purchase_value
AddPurchasedLine(acc, item) ==
    LET name == _normalize_item_name(item.item_name)
        map == MapWith(acc.item_map, name)
        i == MapIndex(map, name)
        value == IF item.amount > 0 THEN item.amount ELSE 0
    IN  [item_map |-> [map EXCEPT ![i].purchased_qty = @ + item.quantity,
                                  ![i].purchased_value = @ + value],
         total |-> acc.total + value]

\* One turn of the inner loop over a sales bill's line items; acc is item_map
\* with result.total_sales_value
AddSoldLine(acc, item) ==
    LET name == _normalize_item_name(item.item_name)
        map == MapWith(acc.item_map, name)
        i == MapIndex(map, name)
        value == IF item.amount > 0 THEN item.amount ELSE 0
    IN  [item_map |-> [map EXCEPT ![i].sold_qty = @ + item.quantity,
                                  ![i].sold_value = @ + value],
         total |-> acc.total + value]

RECURSIVE FoldPurchaseLines(_, _)
FoldPurchaseLines(acc, line_items) ==
    IF line_items = <<>> THEN acc
    ELSE FoldPurchaseLines(AddPurchasedLine(acc, Head(line_items)), Tail(line_items))

RECURSIVE FoldSalesLines(_, _)
FoldSalesLines(acc, line_items) ==
    IF line_items = <<>> THEN acc
    ELSE FoldSalesLines(AddSoldLine(acc, Head(line_items)), Tail(line_items))

\* A slip: a purchase bill without a date is left out of the aggregation
RECURSIVE FoldPurchaseBills_DatedOnly(_, _)
FoldPurchaseBills_DatedOnly(acc, bills) ==
    IF bills = <<>> THEN acc
    ELSE FoldPurchaseBills_DatedOnly(
             IF Falsy(Head(bills).date) THEN acc
             ELSE FoldPurchaseLines(acc, Head(bills).line_items),
             Tail(bills))

\* for bill in purchase_data: for item in bill.get('line_items', [])
RECURSIVE FoldPurchaseBills(_, _)
FoldPurchaseBills(acc, bills) ==
    IF bills = <<>> THEN acc
    ELSE FoldPurchaseBills(FoldPurchaseLines(acc, Head(bills).line_items), Tail(bills))

\* for bill in sales_data: for item in bill.get('line_items', [])
RECURSIVE FoldSalesBills(_, _)
FoldSalesBills(acc, bills) ==
    IF bills = <<>> THEN acc
    ELSE FoldSalesBills(FoldSalesLines(acc, Head(bills).line_items), Tail(bills))

\* A slip: the two quantities added
SurplusDeficit_Added(item) == item.purchased_qty + item.sold_qty

\* item.surplus_deficit
SurplusDeficit(item) == item.purchased_qty - item.sold_qty

\* A slip: <= at the threshold
StatusOf_Inclusive(surplus_deficit) ==
    IF surplus_deficit > 0
    THEN IF surplus_deficit <= 10 THEN "low_stock" ELSE "surplus"
    ELSE IF surplus_deficit < 0 THEN "deficit"
    ELSE "balanced"

\* The status the metrics loop gives an item with this surplus_deficit
StatusOf(surplus_deficit) ==
    IF surplus_deficit > 0
    THEN IF surplus_deficit < LOW_STOCK_THRESHOLD THEN "low_stock" ELSE "surplus"
    ELSE IF surplus_deficit < 0 THEN "deficit"
    ELSE "balanced"

\* The metrics loop's effect on the items
WithMetrics(item_map) ==
    [i \in 1..Len(item_map) |->
        [item_map[i] EXCEPT !.surplus_deficit = SurplusDeficit(item_map[i]),
                            !.status = StatusOf(SurplusDeficit(item_map[i]))]]

\* A slip: the low-stock branch falls through to the surplus list
RECURSIVE NamesWithStatus_FallThrough(_, _)
NamesWithStatus_FallThrough(items, status) ==
    IF items = <<>> THEN <<>>
    ELSE (IF \/ Head(items).status = status
             \/ status = "surplus" /\ Head(items).status = "low_stock"
          THEN <<Head(items).item_name>> ELSE <<>>)
         \o NamesWithStatus_FallThrough(Tail(items), status)

\* The names the metrics loop appends to the list of one status
RECURSIVE NamesWithStatus(_, _)
NamesWithStatus(items, status) ==
    IF items = <<>> THEN <<>>
    ELSE (IF Head(items).status = status THEN <<Head(items).item_name>> ELSE <<>>)
         \o NamesWithStatus(Tail(items), status)

\* A slip: a sort that reverses the items of equal sold_qty (an ascending
\* sort, then reversed)
InsertBySold_Reversing(sorted_items, item) ==
    LET before == {i \in 1..Len(sorted_items) : sorted_items[i].sold_qty <= item.sold_qty}
        k == IF before = {} THEN Len(sorted_items) + 1
             ELSE CHOOSE i \in before : \A j \in before : i <= j
    IN  SubSeq(sorted_items, 1, k - 1) \o <<item>>
        \o SubSeq(sorted_items, k, Len(sorted_items))

\* sorted(..., key=sold_qty, reverse=True) is stable: an item goes behind every
\* item whose sold_qty is not smaller
InsertBySold(sorted_items, item) ==
    LET before == {i \in 1..Len(sorted_items) : sorted_items[i].sold_qty < item.sold_qty}
        k == IF before = {} THEN Len(sorted_items) + 1
             ELSE CHOOSE i \in before : \A j \in before : i <= j
    IN  SubSeq(sorted_items, 1, k - 1) \o <<item>>
        \o SubSeq(sorted_items, k, Len(sorted_items))

RECURSIVE SortedBySold(_)
SortedBySold(items) ==
    IF items = <<>> THEN <<>>
    ELSE InsertBySold(SortedBySold(SubSeq(items, 1, Len(items) - 1)), items[Len(items)])

\* [item.item_name for item in sorted_items[:5]]
TopSellingItems(items) ==
    LET sorted_items == SortedBySold(items)
        n == IF Len(sorted_items) < TOP_SELLING THEN Len(sorted_items) ELSE TOP_SELLING
    IN  [i \in 1..n |-> sorted_items[i].item_name]

\* A slip: the bestseller line ahead of the surplus line, and printed always
_generate_insights_TopFirst(a) ==
    (IF a.deficit_items # <<>> THEN <<<<"CRITICAL", Len(a.deficit_items)>>>> ELSE <<>>)
    \o (IF a.low_stock_items # <<>>
        THEN <<<<"ALERT", Len(a.low_stock_items), LOW_STOCK_THRESHOLD>>>> ELSE <<>>)
    \o <<<<"TOP", Len(a.top_selling_items)>>>>
    \o (IF a.surplus_items # <<>> THEN <<<<"GOOD", Len(a.surplus_items)>>>> ELSE <<>>)
    \o <<<<"SUMMARY", a.purchase_bill_count, a.sales_bill_count, Len(a.items)>>>>

\* _generate_insights(analysis): a line is its tag and the numbers it prints
_generate_insights(a) ==
    (IF a.deficit_items # <<>> THEN <<<<"CRITICAL", Len(a.deficit_items)>>>> ELSE <<>>)
    \o (IF a.low_stock_items # <<>>
        THEN <<<<"ALERT", Len(a.low_stock_items), LOW_STOCK_THRESHOLD>>>> ELSE <<>>)
    \o (IF a.surplus_items # <<>> THEN <<<<"GOOD", Len(a.surplus_items)>>>> ELSE <<>>)
    \o (IF a.top_selling_items # <<>>
        THEN <<<<"TOP", Len(a.top_selling_items)>>>> ELSE <<>>)
    \o <<<<"SUMMARY", a.purchase_bill_count, a.sales_bill_count, Len(a.items)>>>>

\* A slip: item_map kept on the analyzer from one call to the next
NewItemMap_Kept ==
    IF calls = <<>> THEN <<>> ELSE calls[Len(calls)].analysis.items

\* item_map: Dict[str, InventoryItem] = {}
NewItemMap == <<>>

analyze(purchase, sales) ==
    LET purchase_range == DateRange(_extract_dates(purchase))
        sales_range == DateRange(_extract_dates(sales))
        bought == FoldPurchaseBills([item_map |-> NewItemMap, total |-> 0], purchase)
        sold == FoldSalesBills([item_map |-> bought.item_map, total |-> 0], sales)
        items == WithMetrics(sold.item_map)
        result ==
            [items |-> items,
             surplus_items |-> NamesWithStatus(items, "surplus"),
             deficit_items |-> NamesWithStatus(items, "deficit"),
             low_stock_items |-> NamesWithStatus(items, "low_stock"),
             top_selling_items |-> TopSellingItems(items),
             purchase_bill_count |-> Len(purchase),
             sales_bill_count |-> Len(sales),
             total_purchase_value |-> bought.total,
             total_sales_value |-> sold.total,
             purchase_date_range |-> purchase_range,
             sales_date_range |-> sales_range,
             date_mismatch_warning |->
                 _validate_date_ranges(purchase_range, sales_range)]
    IN  [f \in DOMAIN result \cup {"insights"} |->
            IF f = "insights" THEN _generate_insights(result) ELSE result[f]]

\* A slip: the normalized name written back to the line item
LineItemAfter_Renamed(item) ==
    [item EXCEPT !.item_name = _normalize_item_name(@)]

\* A line item after analyze: the loops read item.item_name, item.quantity
\* and item.amount, and assign to none of them
LineItemAfter(item) == item

\* The bills after analyze: it reads bill.get('date') and
\* bill.get('line_items'), and assigns to no key
RECURSIVE LineItemsAfter(_)
LineItemsAfter(line_items) ==
    IF line_items = <<>> THEN <<>>
    ELSE <<LineItemAfter(Head(line_items))>> \o LineItemsAfter(Tail(line_items))

RECURSIVE BillsAfter(_)
BillsAfter(bills) ==
    IF bills = <<>> THEN <<>>
    ELSE <<[Head(bills) EXCEPT !.line_items = LineItemsAfter(@)]>>
         \o BillsAfter(Tail(bills))

\* The dict analyze_bills appends for one extracted bill
BillOf(e) ==
    [invoice_number |-> e.invoice_number, date |-> e.date,
     vendor_name |-> e.vendor_name, line_items |-> e.line_items,
     additional_charges |-> e.additional_charges, subtotal |-> e.subtotal,
     cgst |-> e.cgst, sgst |-> e.sgst, igst |-> e.igst, tax |-> e.tax,
     total |-> e.total]

(***************************************************************************)
(* The responses the model draws from                                      *)
(***************************************************************************)
TROPHY_646 == <<"T","r","o","p","h","y"," ","-"," ","6","4","6">>
trophy_646 == <<"t","r","o","p","h","y"," ","-"," ","6","4","6">>
CUP_SPACED == <<" ","C","U","P"," "," ">>
CUP == <<"C","u","p">>
MEDAL == <<"M","e","d","a","l">>
PEN == <<"P","e","n">>
BAG == <<"B","a","g">>
MUG == <<"M","u","g">>
CAP == <<"C","a","p">>
PACKING_CHARGES == <<"P","a","c","k","i","n","g"," ","C","h","a","r","g","e","s">>
FREIGHT == <<"F","r","e","i","g","h","t">>
DISCHARGE_VALVE == <<"D","i","s","C","H","A","R","G","E"," ","v","a","l","v","e">>
BLANK == <<" ">>
DATE_02_01_2025 == <<"0","2","/","0","1","/","2","0","2","5">>
DATE_15_12_2024 == <<"1","5","/","1","2","/","2","0","2","4">>
DATE_ISO_2024_12_15 == <<"2","0","2","4","-","1","2","-","1","5">>
DATE_8_APR_25 == <<"8","-","A","p","r","-","2","5">>
DATE_31_02_2024 == <<"3","1","/","0","2","/","2","0","2","4">>
DATE_NONE_SUCH == <<"n","/","a">>
EMPTY == <<>>

RawLine(name, quantity, rate, discount_percent, amount) ==
    [item_name |-> name, quantity |-> quantity, rate |-> rate,
     discount_percent |-> discount_percent, amount |-> amount]

RawCharge(name, quantity, rate, amount) ==
    [charge_name |-> name, quantity |-> quantity, rate |-> rate, amount |-> amount]

Response(date, line_items, additional_charges) ==
    [invoice_number |-> Missing, date |-> date, vendor_name |-> Missing,
     line_items |-> line_items, additional_charges |-> additional_charges,
     subtotal |-> Missing, cgst |-> Missing, sgst |-> Missing, igst |-> Missing,
     total |-> Missing]

\* The bills of the pipeline: item names in several spellings, quantities on
\* both sides of the low-stock threshold and a negative one, charges, dates
\* in several formats
RawBills == {
    Response(Str(DATE_02_01_2025),
        << RawLine(Str(TROPHY_646), Num(200), Num(2400), Num(50), Num(240000)),
           RawLine(Str(PACKING_CHARGES), Num(1), Num(20000), Num(0), Num(20000)) >>,
        << RawCharge(Str(FREIGHT), Num(1), Num(5000), Num(5000)) >>),
    Response(Str(DATE_15_12_2024),
        << RawLine(Str(trophy_646), Num(30), Num(0), Num(0), Num(0)),
           RawLine(Str(PEN), Num(1), Num(1000), Num(18), Num(1000)),
           RawLine(Str(MUG), Num(5), Num(0), Num(0), Num(0)) >>,
        <<>>),
    Response(Str(DATE_ISO_2024_12_15),
        << RawLine(Str(CUP), Num(7), Num(1000), Num(0), Num(0)),
           RawLine(Str(MEDAL), Num(10), Num(500), Num(0), Num(5000)),
           RawLine(Str(PEN), Num(1), Missing, Missing, Num(-300)),
           RawLine(Str(BAG), Num(2), Num(0), Num(0), Num(900)) >>,
        <<>>),
    Response(Str(DATE_8_APR_25),
        << RawLine(Str(MUG), Num(1), Num(0), Num(0), Num(250)),
           RawLine(Str(CAP), Num(2), Num(0), Num(0), Num(0)),
           RawLine(Str(CUP_SPACED), Num(3), Num(0), Num(0), Num(1200)) >>,
        <<>>),
    Response(Str(DATE_31_02_2024),
        << RawLine(Str(MEDAL), Num(1), Num(500), Num(0), Num(500)),
           RawLine(Str(CUP), Num(0), Num(1000), Num(0), Num(0)),
           RawLine(Str(CAP), Num(-5), Num(0), Num(0), Num(0)) >>,
        <<>>),
    Response(Str(BLANK),
        << RawLine(Str(EMPTY), Num(1), Num(0), Num(0), Num(100)),
           RawLine(Str(BLANK), Num(2), Num(0), Num(0), Num(0)),
           RawLine(Missing, Num(4), Num(0), Num(0), Num(0)) >>,
        <<>>),
    Response(Str(DATE_NONE_SUCH),
        << RawLine(Str(trophy_646), Num(170), Num(0), Num(0), Num(0)),
           RawLine(Str(BAG), Num(7), Num(0), Num(0), Num(0)) >>,
        << RawCharge(Str(PACKING_CHARGES), Missing, Missing, Num(20000)) >>) }

MaxBills == 3

(***************************************************************************)
(* The pipeline of analyze_bills: each file is extracted and appended to   *)
(* its list, then the two lists are analyzed                               *)
(***************************************************************************)
Init ==
    /\ response = None
    /\ extracted = None
    /\ purchase_raw = <<>>
    /\ sales_raw = <<>>
    /\ purchase_data = <<>>
    /\ sales_data = <<>>
    /\ analysis = None
    /\ calls = <<>>
    /\ validation = None
    /\ date_arg = <<>>
    /\ normalized = NotCalled
    /\ users_collection = None
    /\ logins = <<>>
    /\ utcnow = 0
    /\ tokens = {}
    /\ request = None
    /\ failed_files = <<>>
    /\ handled = 0

Analyzed == analysis.t = "analysis"

\* The request is still in the loops over its files
Pending == analysis.t = "null"

\* One turn of the loop over purchase_files, for a file that parses
ProcessPurchaseFile(data) ==
    /\ Pending
    /\ Len(purchase_data) + Len(sales_data) < MaxBills
    /\ purchase_raw' = Append(purchase_raw, data)
    /\ purchase_data' = Append(purchase_data, BillOf(extract(data)))
    /\ UNCHANGED <<response, extracted, sales_raw, sales_data, analysis, calls,
                   validation, date_arg, normalized, users_collection, logins,
                   utcnow, tokens, request, failed_files, handled>>

\* One turn of the loop over sales_files, for a file that parses and that
\* detect_bill_type does not send to the purchases
ProcessSalesFile(data) ==
    /\ Pending
    /\ Len(purchase_data) + Len(sales_data) < MaxBills
    /\ sales_raw' = Append(sales_raw, data)
    /\ sales_data' = Append(sales_data, BillOf(extract(data)))
    /\ UNCHANGED <<response, extracted, purchase_raw, purchase_data, analysis,
                   calls, validation, date_arg, normalized, users_collection,
                   logins, utcnow, tokens, request, failed_files, handled>>

\* One call of analyze: its two arguments and what it returned
Call(purchase, sales, result) ==
    [purchase_data |-> purchase, sales_data |-> sales, analysis |-> result]

\* No bill at all: HTTP 400, nothing is analyzed
Reject ==
    /\ Pending
    /\ purchase_data = <<>> /\ sales_data = <<>>
    /\ analysis' = [t |-> "rejected", v |-> 400]
    /\ UNCHANGED <<response, extracted, purchase_raw, sales_raw,
                   purchase_data, sales_data, calls, validation, date_arg,
                   normalized, users_collection, logins, utcnow, tokens,
                   request, failed_files, handled>>

\* inventory_analyzer.analyze(purchase_data, sales_data)
Analyze ==
    /\ Pending
    /\ ~(purchase_data = <<>> /\ sales_data = <<>>)
    /\ analysis' = [t |-> "analysis", v |-> analyze(purchase_data, sales_data)]
    /\ calls' = Append(calls, Call(purchase_data, sales_data, analysis'.v))
    /\ purchase_data' = BillsAfter(purchase_data)
    /\ sales_data' = BillsAfter(sales_data)
    /\ UNCHANGED <<response, extracted, purchase_raw, sales_raw, validation, date_arg,
                   normalized, users_collection, logins, utcnow, tokens,
                   request, failed_files, handled>>

Next ==
    \/ \E data \in RawBills : ProcessPurchaseFile(data)
    \/ \E data \in RawBills : ProcessSalesFile(data)
    \/ Reject
    \/ Analyze

Spec == Init /\ [][Next]_vars

(***************************************************************************)
(* A document processed alone: extract on every response of a pool of      *)
(* line items, and validate on what it returns                             *)
(***************************************************************************)
MaxRawLines == 2

\* 50 at 10.00, amount 500.00, declared discount 18
ScenarioA == RawLine(Str(TROPHY_646), Num(50), Num(1000), Num(18), Num(50000))

\* Products: quantity 2 or 0, rate 0 or 10.00, declared discount 0 or 18,
\* amount 0, 20.00 (= 2 x 10.00), 19.50, 19.00 (1.00 off) and 16.40 (18% off);
\* a negative quantity, a negative rate; one at 0.50 or 1.00 with no amount
\* and a declared discount of 18 or of 100
ProductLines ==
    { RawLine(Str(CUP), q, r, d, a) :
        q \in {Num(2), Num(0)}, r \in {Num(0), Num(1000)},
        d \in {Num(0), Num(18)},
        a \in {Num(0), Num(2000), Num(1950), Num(1900), Num(1640)} }
    \cup {ScenarioA}
    \cup { RawLine(Str(MEDAL), Num(-5), Num(1000), Num(0), Num(-5000)),
           RawLine(Str(MEDAL), Num(3), Num(-1000), Num(0), Num(0)) }
    \cup { RawLine(Str(PEN), Num(1), Num(50), Num(18), Num(0)),
           RawLine(Str(PEN), Num(1), Num(50), Num(100), Num(0)),
           RawLine(Str(PEN), Num(-1), Num(100), Num(18), Num(0)) }

\* "Packing Charges", and a name with a keyword inside a word
ChargeLines ==
    { RawLine(Str(PACKING_CHARGES), Num(2), Num(1000), Num(18), a) :
        a \in {Num(0), Num(2000)} }
    \cup { RawLine(Str(DISCHARGE_VALVE), Num(4), Num(500), Num(0), Num(2000)) }

RECURSIVE SeqsUpTo(_, _)
SeqsUpTo(S, n) ==
    IF n = 0 THEN {<<>>}
    ELSE LET shorter == SeqsUpTo(S, n - 1)
         IN  shorter \cup {Append(q, x) : q \in {r \in shorter : Len(r) = n - 1}, x \in S}

RawResponses(n) ==
    { Response(Str(DATE_02_01_2025), line_items, <<>>) :
        line_items \in SeqsUpTo(ProductLines \cup ChargeLines, n) }

NotExtracted == extracted.t = "null"

InitExtract ==
    /\ response \in RawResponses(MaxRawLines)
    /\ extracted = None
    /\ purchase_raw = <<>>
    /\ sales_raw = <<>>
    /\ purchase_data = <<>>
    /\ sales_data = <<>>
    /\ analysis = None
    /\ calls = <<>>
    /\ validation = None
    /\ date_arg = <<>>
    /\ normalized = NotCalled
    /\ users_collection = None
    /\ logins = <<>>
    /\ utcnow = 0
    /\ tokens = {}
    /\ request = None
    /\ failed_files = <<>>
    /\ handled = 0

\* process_document: ai_extractor.extract, from json.loads(response_text)
\* on, then validator.validate
Extract ==
    /\ NotExtracted
    /\ extracted' = [t |-> "data", v |-> extract(response)]
    /\ validation' = validate(extracted'.v)
    /\ UNCHANGED <<response, purchase_raw, sales_raw, purchase_data, sales_data,
                   analysis, calls, date_arg, normalized, users_collection,
                   logins, utcnow, tokens, request, failed_files, handled>>

NextExtract == Extract

SpecExtract == InitExtract /\ [][NextExtract]_vars

(***************************************************************************)
(* analyze_bills from the uploaded files on: the two loops over the files, *)
(* each file skipped, failed or appended to one of the lists, then the     *)
(* answer                                                                  *)
(***************************************************************************)
MaxFiles == 2

SALES_KEYWORDS == {
    <<"s","o","l","d"," ","t","o">>,
    <<"c","u","s","t","o","m","e","r">>,
    <<"i","n","v","o","i","c","e"," ","t","o">>,
    <<"b","i","l","l"," ","t","o">>,
    <<"s","h","i","p"," ","t","o">>,
    <<"b","u","y","e","r">>,
    <<"s","a","l","e","s"," ","i","n","v","o","i","c","e">>,
    <<"t","a","x"," ","i","n","v","o","i","c","e">>,
    <<"r","e","t","a","i","l">>,
    <<"s","a","l","e">> }

PURCHASE_KEYWORDS == {
    <<"p","u","r","c","h","a","s","e","d"," ","f","r","o","m">>,
    <<"s","u","p","p","l","i","e","r">>,
    <<"v","e","n","d","o","r">>,
    <<"p","u","r","c","h","a","s","e"," ","o","r","d","e","r">>,
    <<"p","o"," ","n","u","m","b","e","r">>,
    <<"b","o","u","g","h","t"," ","f","r","o","m">>,
    <<"p","u","r","c","h","a","s","e"," ","i","n","v","o","i","c","e">>,
    <<"w","h","o","l","e","s","a","l","e">>,
    <<"p","r","o","c","u","r","e","m","e","n","t">> }

\* A slip: a tie counts as a purchase
detect_bill_type_TieIsPurchase(text_content) ==
    LET text_lower == StrLower(text_content)
        sales_score == Cardinality({kw \in SALES_KEYWORDS : StrContains(text_lower, kw)})
        purchase_score ==
            Cardinality({kw \in PURCHASE_KEYWORDS : StrContains(text_lower, kw)})
    IN  IF sales_score > purchase_score THEN "sales" ELSE "purchase"

\* InventoryAnalyzer.detect_bill_type: the value of the BillType it returns
detect_bill_type(text_content) ==
    LET text_lower == StrLower(text_content)
        sales_score == Cardinality({kw \in SALES_KEYWORDS : StrContains(text_lower, kw)})
        purchase_score ==
            Cardinality({kw \in PURCHASE_KEYWORDS : StrContains(text_lower, kw)})
    IN  IF sales_score > purchase_score THEN "sales"
        ELSE IF purchase_score > sales_score THEN "purchase"
        ELSE "unknown"

TEXT_SOLD_TO == <<"S","o","l","d"," ","T","o",":"," ","A","s","h","a">>
TEXT_SUPPLIER == <<"S","u","p","p","l","i","e","r",":"," ","A","c","m","e">>
TEXT_WHOLESALE == <<"W","h","o","l","e","s","a","l","e">>
TEXT_VENDOR_BILL_TO == <<"V","e","n","d","o","r"," ","P","O"," ","N","u","m","b","e","r"," ","7",","," ","B","i","l","l"," ","T","o">>
TEXT_RETAIL_VENDOR == <<"R","e","t","a","i","l"," ","s","a","l","e"," ","b","y"," ","v","e","n","d","o","r">>

\* An uploaded file: the length of its bytes, and what document_parser.parse
\* and the extraction model make of it
UploadFile(size, success, text_content, data) ==
    [size |-> size, success |-> success, text_content |-> text_content, data |-> data]

\* 5 Medals at 5.00
UPLOADED_BILL ==
    Response(Str(DATE_02_01_2025),
        << RawLine(Str(MEDAL), Num(5), Num(500), Num(0), Num(2500)) >>, <<>>)

\* An empty file, one that does not parse, and bills whose text has more
\* sales keywords, more purchase keywords, as many of each, or none
UploadFiles ==
    { UploadFile(0, FALSE, <<>>, None),
      UploadFile(1, FALSE, <<>>, None) }
    \cup { UploadFile(1, TRUE, text_content, UPLOADED_BILL) :
             text_content \in {TEXT_SOLD_TO, TEXT_SUPPLIER, TEXT_WHOLESALE,
                               TEXT_VENDOR_BILL_TO, TEXT_RETAIL_VENDOR, <<>>} }

\* The requests of at most n files in all
Uploads(n) ==
    UNION { { [purchase_files |-> purchase_files, sales_files |-> sales_files,
               auto_detect |-> auto_detect] :
                purchase_files \in {q \in SeqsUpTo(UploadFiles, k) : Len(q) = k},
                sales_files \in SeqsUpTo(UploadFiles, n - k),
                auto_detect \in BOOLEAN } : k \in 0..n }

InitUpload ==
    /\ response = None
    /\ extracted = None
    /\ purchase_raw = <<>>
    /\ sales_raw = <<>>
    /\ purchase_data = <<>>
    /\ sales_data = <<>>
    /\ analysis = None
    /\ calls = <<>>
    /\ validation = None
    /\ date_arg = <<>>
    /\ normalized = NotCalled
    /\ users_collection = None
    /\ logins = <<>>
    /\ utcnow = 0
    /\ tokens = {}
    /\ request \in Uploads(MaxFiles)
    /\ failed_files = <<>>
    /\ handled = 0

\* One turn of `for file in purchase_files`
PurchaseFileTurn ==
    /\ Pending
    /\ handled < Len(request.purchase_files)
    /\ handled' = handled + 1
    /\ LET file == request.purchase_files[handled + 1]
       IN  IF file.size = 0
           THEN UNCHANGED <<purchase_raw, purchase_data, failed_files>>
           ELSE IF file.success
           THEN /\ purchase_raw' = Append(purchase_raw, file.data)
                /\ purchase_data' = Append(purchase_data, BillOf(extract(file.data)))
                /\ UNCHANGED failed_files
           ELSE /\ failed_files' = Append(failed_files, handled + 1)
                /\ UNCHANGED <<purchase_raw, purchase_data>>
    /\ UNCHANGED <<response, extracted, sales_raw, sales_data, analysis, calls,
                   validation, date_arg, normalized, users_collection, logins,
                   utcnow, tokens, request>>

\* One turn of `for file in sales_files`, after the purchase files
SalesFileTurn ==
    /\ Pending
    /\ handled >= Len(request.purchase_files)
    /\ handled < Len(request.purchase_files) + Len(request.sales_files)
    /\ handled' = handled + 1
    /\ LET file == request.sales_files[handled - Len(request.purchase_files) + 1]
       IN  IF file.size = 0
           THEN UNCHANGED <<purchase_raw, purchase_data, sales_raw, sales_data,
                            failed_files>>
           ELSE IF file.success
           THEN IF /\ request.auto_detect
                   /\ detect_bill_type(file.text_content) = "purchase"
                THEN /\ purchase_raw' = Append(purchase_raw, file.data)
                     /\ purchase_data' =
                            Append(purchase_data, BillOf(extract(file.data)))
                     /\ UNCHANGED <<sales_raw, sales_data, failed_files>>
                ELSE /\ sales_raw' = Append(sales_raw, file.data)
                     /\ sales_data' = Append(sales_data, BillOf(extract(file.data)))
                     /\ UNCHANGED <<purchase_raw, purchase_data, failed_files>>
           ELSE /\ failed_files' = Append(failed_files, handled + 1)
                /\ UNCHANGED <<purchase_raw, purchase_data, sales_raw, sales_data>>
    /\ UNCHANGED <<response, extracted, analysis, calls, validation, date_arg,
                   normalized, users_collection, logins, utcnow, tokens, request>>

\* Both loops are over
AllHandled == handled = Len(request.purchase_files) + Len(request.sales_files)

\* `if not purchase_data and not sales_data`: HTTP 400
NoValidBills == AllHandled /\ Reject

\* analysis = inventory_analyzer.analyze(purchase_data, sales_data)
AnalyzeBills == AllHandled /\ Analyze

NextUpload ==
    \/ PurchaseFileTurn
    \/ SalesFileTurn
    \/ NoValidBills
    \/ AnalyzeBills

SpecUpload == InitUpload /\ [][NextUpload]_vars

(***************************************************************************)
(* The pipeline on bills with line items of quantity 0, null or absent     *)
(***************************************************************************)
\* Cup with quantity 0 and no amount beside Cup with quantity 3; Pen with a
\* null quantity at 0.50, declared discount 18; Mug with no quantity key at
\* 20.00, amount 20.00, declared discount 18, and "Packing Charges" with
\* quantity 0; Cup with quantity 0 and no rate beside Medal with quantity 2
ZeroQuantityBills == {
    Response(Str(DATE_02_01_2025),
        << RawLine(Str(CUP), Num(0), Num(1000), Num(18), Num(0)),
           RawLine(Str(CUP), Num(3), Num(1000), Num(0), Num(3000)) >>,
        <<>>),
    Response(Str(DATE_02_01_2025),
        << RawLine(Str(PEN), None, Num(50), Num(18), Num(0)) >>,
        <<>>),
    Response(Str(DATE_15_12_2024),
        << RawLine(Str(MUG), Missing, Num(2000), Num(18), Num(2000)),
           RawLine(Str(PACKING_CHARGES), Num(0), Num(10000), Num(0), Num(0)) >>,
        <<>>),
    Response(Str(DATE_15_12_2024),
        << RawLine(Str(CUP), Num(0), Num(0), Num(0), Num(0)),
           RawLine(Str(MEDAL), Num(2), Num(500), Num(0), Num(1000)) >>,
        <<>>) }

NextZeroQuantity ==
    \/ \E data \in ZeroQuantityBills : ProcessPurchaseFile(data)
    \/ \E data \in ZeroQuantityBills : ProcessSalesFile(data)
    \/ Reject
    \/ Analyze

SpecZeroQuantity == Init /\ [][NextZeroQuantity]_vars

(***************************************************************************)
(* extract on responses with a header, line items and additional_charges,  *)
(* some of which do not convert                                            *)
(***************************************************************************)
MaxRawCharges == 2

TWO == <<"t","w","o">>
INV_17 == <<"I","N","V","-","1","7">>
ACME == <<"A","c","m","e">>
DISCOUNT == <<"D","i","s","c","o","u","n","t">>

\* A product, a charge by its name, a quantity that is no number ("two")
\* and a name that is null
ConvertLines ==
    { RawLine(Str(CUP), Num(2), Num(1000), Num(0), Num(2000)),
      RawLine(Str(PACKING_CHARGES), Num(1), Num(20000), Num(0), Num(20000)),
      RawLine(Str(CUP), Str(TWO), Num(1000), Num(0), Num(2000)),
      RawLine(None, Num(1), Num(500), Num(0), Num(500)) }

\* Charges with and without quantity and rate, with amount 0, with a
\* negative amount (a discount listed as a deduction), with an empty name,
\* and one whose amount is no number ("n/a")
ConvertCharges ==
    { RawCharge(Str(FREIGHT), Num(1), Num(5000), Num(5000)),
      RawCharge(Str(PACKING_CHARGES), Missing, Missing, Num(20000)),
      RawCharge(Str(FREIGHT), Num(1), Num(5000), Num(0)),
      RawCharge(Str(DISCOUNT), Num(0), Num(0), Num(-5000)),
      RawCharge(Str(EMPTY), Num(1), Num(700), Num(700)),
      RawCharge(Str(FREIGHT), Num(1), Num(5000), Str(DATE_NONE_SUCH)) }

\* The header: nothing but the date ("none"); numbers, number and vendor
\* ("full"); the same with a total that is no number, "n/a" ("no total")
WithHeader(data, header) ==
    IF header = "none" THEN data
    ELSE [data EXCEPT !.invoice_number = Str(INV_17), !.vendor_name = Str(ACME),
                      !.subtotal = Num(20000), !.cgst = Num(1800),
                      !.sgst = Num(1800),
                      !.total = IF header = "full" THEN Num(23600)
                                ELSE Str(DATE_NONE_SUCH)]

\* The responses of up to n line items and up to m raw charges
ConvertResponses(n, m) ==
    { WithHeader(Response(Str(DATE_02_01_2025), line_items, additional_charges),
                 header) :
        line_items \in SeqsUpTo(ConvertLines, n),
        additional_charges \in SeqsUpTo(ConvertCharges, m),
        header \in {"none", "full", "no total"} }

InitConvert ==
    /\ response \in ConvertResponses(MaxRawLines, MaxRawCharges)
    /\ extracted = None
    /\ purchase_raw = <<>>
    /\ sales_raw = <<>>
    /\ purchase_data = <<>>
    /\ sales_data = <<>>
    /\ analysis = None
    /\ calls = <<>>
    /\ validation = None
    /\ date_arg = <<>>
    /\ normalized = NotCalled
    /\ users_collection = None
    /\ logins = <<>>
    /\ utcnow = 0
    /\ tokens = {}
    /\ request = None
    /\ failed_files = <<>>
    /\ handled = 0

SpecConvert == InitConvert /\ [][NextExtract]_vars

(***************************************************************************)
(* Requests in succession: every /analyze-bills request is served by the   *)
(* one module-level inventory_analyzer, each as a whole                    *)
(***************************************************************************)
MaxCalls == 3

\* The files of a request: at most one purchase and one sales bill, of two
\* bills that share an item
CallBills ==
    { data \in RawBills : data.date \in {Str(DATE_02_01_2025), Str(DATE_15_12_2024)} }

CallFiles == {<<>>} \cup { <<data>> : data \in CallBills }

RECURSIVE Bills(_)
Bills(raws) ==
    IF raws = <<>> THEN <<>>
    ELSE <<BillOf(extract(Head(raws)))>> \o Bills(Tail(raws))

\* A request with a file that parses: both loops, then analyze
Request(purchase_files, sales_files) ==
    /\ Len(calls) < MaxCalls
    /\ ~(purchase_files = <<>> /\ sales_files = <<>>)
    /\ purchase_raw' = purchase_files
    /\ sales_raw' = sales_files
    /\ analysis' = [t |-> "analysis",
                     v |-> analyze(Bills(purchase_files), Bills(sales_files))]
    /\ calls' = Append(calls, Call(Bills(purchase_files), Bills(sales_files),
                                   analysis'.v))
    /\ purchase_data' = BillsAfter(Bills(purchase_files))
    /\ sales_data' = BillsAfter(Bills(sales_files))
    /\ UNCHANGED <<response, extracted, validation, date_arg, normalized,
                   users_collection, logins, utcnow, tokens, request,
                   failed_files, handled>>

\* A request with no file that parses: HTTP 400, analyze is not called
EmptyRequest ==
    /\ Len(calls) < MaxCalls
    /\ purchase_raw' = <<>>
    /\ sales_raw' = <<>>
    /\ purchase_data' = <<>>
    /\ sales_data' = <<>>
    /\ analysis' = [t |-> "rejected", v |-> 400]
    /\ UNCHANGED <<response, extracted, calls, validation, date_arg, normalized,
                   users_collection, logins, utcnow, tokens, request,
                   failed_files, handled>>

NextCalls ==
    \/ \E purchase_files \in CallFiles, sales_files \in CallFiles :
           Request(purchase_files, sales_files)
    \/ EmptyRequest

SpecCalls == Init /\ [][NextCalls]_vars

(***************************************************************************)
(* analyze called alone, on every pair of sets of a pool of bills, the     *)
(* empty sets among them, and then once more on the same bills under       *)
(* other dates                                                             *)
(***************************************************************************)
MaxSetBills == 2

SetBills ==
    { data \in RawBills : data.date \in {Str(DATE_02_01_2025), Str(DATE_15_12_2024)} }

\* What a response may have for its date: no key, null, an empty, a blank
\* and a dateless str, a date in another format, a date that does not exist
OtherDates ==
    {Missing, None, Str(EMPTY), Str(BLANK), Str(DATE_NONE_SUCH),
     Str(DATE_8_APR_25), Str(DATE_31_02_2024)}

\* The bills at the positions `at` under the date d
Redated(raws, at, d) ==
    [i \in 1..Len(raws) |-> IF i \in at THEN [raws[i] EXCEPT !.date = d] ELSE raws[i]]

\* One bill of a set, or all of them
Positions(raws) == {{i} : i \in 1..Len(raws)} \cup ({1..Len(raws)} \ {{}})

InitAnalyze ==
    /\ response = None
    /\ extracted = None
    /\ purchase_raw \in SeqsUpTo(SetBills, MaxSetBills)
    /\ sales_raw \in SeqsUpTo(SetBills, MaxSetBills)
    /\ purchase_data = Bills(purchase_raw)
    /\ sales_data = Bills(sales_raw)
    /\ analysis = None
    /\ calls = <<>>
    /\ validation = None
    /\ date_arg = <<>>
    /\ normalized = NotCalled
    /\ users_collection = None
    /\ logins = <<>>
    /\ utcnow = 0
    /\ tokens = {}
    /\ request = None
    /\ failed_files = <<>>
    /\ handled = 0

\* InventoryAnalyzer.analyze(purchase_data, sales_data)
AnalyzeAlone ==
    /\ Pending
    /\ analysis' = [t |-> "analysis", v |-> analyze(purchase_data, sales_data)]
    /\ calls' = Append(calls, Call(purchase_data, sales_data, analysis'.v))
    /\ purchase_data' = BillsAfter(purchase_data)
    /\ sales_data' = BillsAfter(sales_data)
    /\ UNCHANGED <<response, extracted, purchase_raw, sales_raw, validation, date_arg,
                   normalized, users_collection, logins, utcnow, tokens,
                   request, failed_files, handled>>

\* The same bills handed to analyze once more, the purchase bills at `at`
\* under the date d
RedatePurchases(at, d) ==
    /\ Analyzed /\ Len(calls) = 1
    /\ purchase_raw' = Redated(purchase_raw, at, d)
    /\ purchase_data' = Bills(purchase_raw')
    /\ analysis' = None
    /\ UNCHANGED <<response, extracted, sales_raw, sales_data, calls, validation,
                   date_arg, normalized, users_collection, logins, utcnow,
                   tokens, request, failed_files, handled>>

\* The same bills handed to analyze once more, the sales bills at `at`
\* under the date d
RedateSales(at, d) ==
    /\ Analyzed /\ Len(calls) = 1
    /\ sales_raw' = Redated(sales_raw, at, d)
    /\ sales_data' = Bills(sales_raw')
    /\ analysis' = None
    /\ UNCHANGED <<response, extracted, purchase_raw, purchase_data, calls, validation,
                   date_arg, normalized, users_collection, logins, utcnow,
                   tokens, request, failed_files, handled>>

NextAnalyze ==
    \/ AnalyzeAlone
    \/ \E at \in Positions(purchase_raw), d \in OtherDates : RedatePurchases(at, d)
    \/ \E at \in Positions(sales_raw), d \in OtherDates : RedateSales(at, d)

SpecAnalyze == InitAnalyze /\ [][NextAnalyze]_vars

(***************************************************************************)
(* What the claims speak of, read off the inputs                           *)
(***************************************************************************)
(***************************************************************************)
(* _normalize_date called alone, on the strings a bill may carry as date   *)
(***************************************************************************)
DAYS == { <<"8">>, <<"3","1">>, <<"4","5">> }

MONTHS == { <<"0","2">>, <<"1","3">>, <<"A","p","r">>, <<"A","p","r","i","l">> }

YEARS == { <<"2","5">>, <<"2","0","2">>, <<"2","0","2","4">> }

SEPARATORS == {"/", "-", ".", " "}

\* Nothing, a trailing blank, a time of day
TRAILERS == { <<>>, <<" ">>, <<" ","1","0",":","3","0">> }

\* day, separator, month, separator, year and what follows, and strs that
\* are no date at all
DateStrs ==
    { d \o <<sep>> \o m \o <<sep>> \o y \o t :
        d \in DAYS, sep \in SEPARATORS, m \in MONTHS, y \in YEARS, t \in TRAILERS }
    \cup { BLANK \o DATE_02_01_2025, DATE_ISO_2024_12_15, DATE_NONE_SUCH, BLANK,
           <<"1","/","2","-","2","0","2","4">> }

InitDates ==
    /\ response = None
    /\ extracted = None
    /\ purchase_raw = <<>>
    /\ sales_raw = <<>>
    /\ purchase_data = <<>>
    /\ sales_data = <<>>
    /\ analysis = None
    /\ calls = <<>>
    /\ validation = None
    /\ users_collection = None
    /\ logins = <<>>
    /\ utcnow = 0
    /\ tokens = {}
    /\ request = None
    /\ failed_files = <<>>
    /\ handled = 0
    /\ date_arg \in DateStrs
    /\ normalized = NotCalled

\* self._normalize_date(date_str), as _extract_dates calls it
NormalizeDate ==
    /\ normalized = NotCalled
    /\ normalized' = _normalize_date(date_arg)
    /\ UNCHANGED <<response, extracted, purchase_raw, sales_raw, purchase_data,
                   sales_data, analysis, calls, validation, date_arg,
                   users_collection, logins, utcnow, tokens, request,
                   failed_files, handled>>

NextDates == NormalizeDate

SpecDates == InitDates /\ [][NextDates]_vars

(***************************************************************************)
(* A ValidationResult under its two methods, called in any order           *)
(***************************************************************************)
MaxMessages == 4

\* ValidationResult()
FreshResult == [is_valid |-> TRUE, errors |-> <<>>, warnings |-> <<>>]

\* A slip: the error recorded, the result left valid
add_error_KeepingValid(result, message) ==
    [result EXCEPT !.errors = Append(@, message)]

\* ValidationResult.add_error(message)
add_error(result, message) ==
    [result EXCEPT !.errors = Append(@, message), !.is_valid = FALSE]

\* ValidationResult.add_warning(message)
add_warning(result, message) ==
    [result EXCEPT !.warnings = Append(@, message)]

\* Messages the validator passes to add_error and to add_warning
ERROR_MESSAGES ==
    { <<"No line items could be extracted">>,
      <<"Line item", 1, "Quantity cannot be negative">> }

WARNING_MESSAGES ==
    { <<"Document date is missing">>,
      <<"Line item", 1, "Item name is empty">> }

InitResult ==
    /\ response = None
    /\ extracted = None
    /\ purchase_raw = <<>>
    /\ sales_raw = <<>>
    /\ purchase_data = <<>>
    /\ sales_data = <<>>
    /\ analysis = None
    /\ calls = <<>>
    /\ validation = FreshResult
    /\ date_arg = <<>>
    /\ normalized = NotCalled
    /\ users_collection = None
    /\ logins = <<>>
    /\ utcnow = 0
    /\ tokens = {}
    /\ request = None
    /\ failed_files = <<>>
    /\ handled = 0

AddError(message) ==
    /\ Len(validation.errors) + Len(validation.warnings) < MaxMessages
    /\ validation' = add_error(validation, message)
    /\ UNCHANGED <<response, extracted, purchase_raw, sales_raw, purchase_data,
                   sales_data, analysis, calls, date_arg, normalized,
                   users_collection, logins, utcnow, tokens, request,
                   failed_files, handled>>

AddWarning(message) ==
    /\ Len(validation.errors) + Len(validation.warnings) < MaxMessages
    /\ validation' = add_warning(validation, message)
    /\ UNCHANGED <<response, extracted, purchase_raw, sales_raw, purchase_data,
                   sales_data, analysis, calls, date_arg, normalized,
                   users_collection, logins, utcnow, tokens, request,
                   failed_files, handled>>

NextResult ==
    \/ \E message \in ERROR_MESSAGES : AddError(message)
    \/ \E message \in WARNING_MESSAGES : AddWarning(message)

SpecResult == InitResult /\ [][NextResult]_vars

(***************************************************************************)
(* Authentication: the login, logout, activity and toggle-active requests  *)
(* of one user.  login awaits find_one, then checks the document it was    *)
(* handed and awaits update_one: other requests run between the two        *)
(***************************************************************************)
MaxLogins == 2

MaxTicks == 4

SESSION_TIMEOUT_HOURS == 24

\* The clock advances by this many hours at a time
TICK_HOURS == 12

\* The user's document as register_user inserts it
RegisteredUser ==
    [is_active |-> TRUE, is_logged_in |-> FALSE, last_activity |-> None]

At(hours) == [t |-> "num", v |-> hours]

\* is_session_active(user), at the time `now`
is_session_active(user, now) ==
    IF ~user.is_logged_in THEN FALSE
    ELSE IF user.last_activity.t = "null" THEN FALSE
    ELSE IF now > user.last_activity.v + SESSION_TIMEOUT_HOURS THEN FALSE
    ELSE TRUE

\* A login request: where it stands, the document find_one handed it, and
\* the status it was answered with
NewLogin(password_ok) ==
    [pc |-> "find_one", password_ok |-> password_ok, user |-> None,
     status_code |-> 0]

InitLogin ==
    /\ response = None
    /\ extracted = None
    /\ purchase_raw = <<>>
    /\ sales_raw = <<>>
    /\ purchase_data = <<>>
    /\ sales_data = <<>>
    /\ analysis = None
    /\ calls = <<>>
    /\ validation = None
    /\ date_arg = <<>>
    /\ normalized = NotCalled
    /\ users_collection = RegisteredUser
    /\ logins = <<>>
    /\ utcnow = 0
    /\ tokens = {}
    /\ request = None
    /\ failed_files = <<>>
    /\ handled = 0

\* POST /auth/login arrives
LoginArrives(password_ok) ==
    /\ Len(logins) < MaxLogins
    /\ logins' = Append(logins, NewLogin(password_ok))
    /\ UNCHANGED <<response, extracted, purchase_raw, sales_raw, purchase_data,
                   sales_data, analysis, calls, validation, date_arg,
                   normalized, users_collection, utcnow, tokens, request,
                   failed_files, handled>>

\* login: user = await users_collection.find_one(...)
LoginFindOne(r) ==
    /\ logins[r].pc = "find_one"
    /\ logins' = [logins EXCEPT ![r].pc = "check", ![r].user = users_collection]
    /\ UNCHANGED <<response, extracted, purchase_raw, sales_raw, purchase_data,
                   sales_data, analysis, calls, validation, date_arg,
                   normalized, users_collection, utcnow, tokens, request,
                   failed_files, handled>>

\* The status login answers with, from the document it was handed
LoginStatus(login, now) ==
    IF ~login.password_ok THEN 401
    ELSE IF ~login.user.is_active THEN 403
    ELSE IF is_session_active(login.user, now) THEN 409
    ELSE 200

\* login, from the password check to the answer: 401, 403, 409, or the
\* token, with update_one setting is_logged_in and last_activity
LoginAnswer(r) ==
    /\ logins[r].pc = "check"
    /\ LET status_code == LoginStatus(logins[r], utcnow)
       IN /\ logins' = [logins EXCEPT ![r].pc = "answered",
                                      ![r].status_code = status_code]
          /\ IF status_code = 200
             THEN /\ users_collection' =
                         [users_collection EXCEPT !.is_logged_in = TRUE,
                                                  !.last_activity = At(utcnow)]
                  /\ tokens' = tokens \cup {r}
             ELSE UNCHANGED <<users_collection, tokens>>
    /\ UNCHANGED <<response, extracted, purchase_raw, sales_raw, purchase_data,
                   sales_data, analysis, calls, validation, date_arg,
                   normalized, utcnow, request, failed_files, handled>>

\* Some login was answered with a token
TokenHeld == \E r \in 1..Len(logins) : logins[r].status_code = 200

\* POST /auth/logout, with a token of an active user
Logout ==
    /\ TokenHeld
    /\ users_collection.is_active
    /\ users_collection' = [users_collection EXCEPT !.is_logged_in = FALSE,
                                                    !.last_activity = None]
    /\ tokens' = {}
    /\ UNCHANGED <<response, extracted, purchase_raw, sales_raw, purchase_data,
                   sales_data, analysis, calls, validation, date_arg,
                   normalized, logins, utcnow, request, failed_files, handled>>

\* GET /auth/me, with a token of an active user: last_activity is renewed
Activity ==
    /\ TokenHeld
    /\ users_collection.is_active
    /\ users_collection' = [users_collection EXCEPT !.last_activity = At(utcnow)]
    /\ UNCHANGED <<response, extracted, purchase_raw, sales_raw, purchase_data,
                   sales_data, analysis, calls, validation, date_arg,
                   normalized, logins, utcnow, tokens, request, failed_files,
                   handled>>

\* PATCH /auth/users/{username}/toggle-active by the admin
ToggleActive ==
    /\ IF users_collection.is_active
       THEN /\ users_collection' = [is_active |-> FALSE, is_logged_in |-> FALSE,
                                    last_activity |-> None]
            /\ tokens' = {}
       ELSE /\ users_collection' = [users_collection EXCEPT !.is_active = TRUE]
            /\ UNCHANGED tokens
    /\ UNCHANGED <<response, extracted, purchase_raw, sales_raw, purchase_data,
                   sales_data, analysis, calls, validation, date_arg,
                   normalized, logins, utcnow, request, failed_files, handled>>

\* Time passes; a session left without activity for more than
\* SESSION_TIMEOUT_HOURS is over
Tick ==
    /\ utcnow + TICK_HOURS <= MaxTicks * TICK_HOURS
    /\ utcnow' = utcnow + TICK_HOURS
    /\ tokens' = IF /\ is_session_active(users_collection, utcnow)
                    /\ ~is_session_active(users_collection, utcnow')
                 THEN {} ELSE tokens
    /\ UNCHANGED <<response, extracted, purchase_raw, sales_raw, purchase_data,
                   sales_data, analysis, calls, validation, date_arg,
                   normalized, users_collection, logins, request, failed_files,
                   handled>>

NextLogin ==
    \/ \E password_ok \in BOOLEAN : LoginArrives(password_ok)
    \/ \E r \in 1..Len(logins) : LoginFindOne(r)
    \/ \E r \in 1..Len(logins) : LoginAnswer(r)
    \/ Logout
    \/ Activity
    \/ ToggleActive
    \/ Tick

SpecLogin == InitLogin /\ [][NextLogin]_vars

\* The item names the bills of the pool hold
KnownNames ==
    UNION { LET bill == BillOf(extract(data))
            IN  {bill.line_items[i].item_name : i \in 1..Len(bill.line_items)}
            : data \in RawBills }

\* name :> _normalize_item_name(name), for every name of a set
RECURSIVE NameTable(_)
NameTable(names) ==
    IF names = {} THEN [n \in {} |-> n]
    ELSE LET n == CHOOSE n \in names : TRUE
         IN  (n :> _normalize_item_name(n)) @@ NameTable(names \ {n})

NormalizedNames == NameTable(KnownNames)

\* _normalize_item_name(name), looked up for the names of the pool
NameOf(name) ==
    IF name \in DOMAIN NormalizedNames THEN NormalizedNames[name]
    ELSE _normalize_item_name(name)

Result == analysis.v

RECURSIVE AllLineItems(_)
AllLineItems(bills) ==
    IF bills = <<>> THEN <<>>
    ELSE Head(bills).line_items \o AllLineItems(Tail(bills))

PurchaseLines == AllLineItems(purchase_data)

SalesLines == AllLineItems(sales_data)

\* The sum of the quantities of the line items with this normalized name
RECURSIVE QtySum(_, _)
QtySum(lines, name) ==
    IF lines = <<>> THEN 0
    ELSE (IF NameOf(Head(lines).item_name) = name
          THEN Head(lines).quantity ELSE 0)
         + QtySum(Tail(lines), name)

Range(seq) == {seq[i] : i \in 1..Len(seq)}

NoDuplicates(seq) == \A i, j \in 1..Len(seq) : seq[i] = seq[j] => i = j

\* The position of the first line item with this normalized name, purchase
\* bills first, then sales bills
FirstSeen(name) ==
    LET lines == PurchaseLines \o SalesLines
        at == {i \in 1..Len(lines) : NameOf(lines[i].item_name) = name}
    IN  CHOOSE i \in at : \A j \in at : i <= j

Sold(name) == QtySum(SalesLines, name)

\* name a ranks before name b: more sold, or as much and seen first
RanksBefore(a, b) ==
    \/ Sold(a) > Sold(b)
    \/ Sold(a) = Sold(b) /\ FirstSeen(a) < FirstSeen(b)

(***************************************************************************)
(* C1: after analyze, every item's surplus_deficit is purchased_qty minus  *)
(* sold_qty, purchased_qty being the sum of the quantities of the purchase *)
(* line items with the item's normalized name and sold_qty that sum over   *)
(* the sales line items.                                                   *)
(***************************************************************************)
C1_SurplusIsPurchasedMinusSold ==
    Analyzed =>
        \A i \in 1..Len(Result.items) :
            LET item == Result.items[i]
            IN  /\ item.purchased_qty = QtySum(PurchaseLines, item.item_name)
                /\ item.sold_qty = QtySum(SalesLines, item.item_name)
                /\ item.surplus_deficit = item.purchased_qty - item.sold_qty

\* An item bought in two bills and sold, with stock left over
C1_Witness ==
    /\ Analyzed
    /\ Len(purchase_data) >= 2
    /\ \E i \in 1..Len(Result.items) :
           /\ Result.items[i].sold_qty > 0
           /\ Result.items[i].surplus_deficit > 0
           /\ \A b \in 1..Len(purchase_data) :
                  QtySum(purchase_data[b].line_items, Result.items[i].item_name) > 0

(***************************************************************************)
(* C2: surplus_items, deficit_items and low_stock_items hold no name       *)
(* twice, share no name, and hold only names of result.items; so every     *)
(* item is in exactly one of them or in none.                              *)
(***************************************************************************)
C2_ListsPartitionItems ==
    Analyzed =>
        LET names == {Result.items[i].item_name : i \in 1..Len(Result.items)}
            surplus == Result.surplus_items
            deficit == Result.deficit_items
            low == Result.low_stock_items
        IN  /\ NoDuplicates(surplus) /\ NoDuplicates(deficit) /\ NoDuplicates(low)
            /\ Range(surplus) \cap Range(deficit) = {}
            /\ Range(surplus) \cap Range(low) = {}
            /\ Range(deficit) \cap Range(low) = {}
            /\ Range(surplus) \cup Range(deficit) \cup Range(low) \subseteq names

\* All four classes are inhabited
C2_Witness ==
    /\ Analyzed
    /\ Result.surplus_items # <<>>
    /\ Result.deficit_items # <<>>
    /\ Result.low_stock_items # <<>>
    /\ \E i \in 1..Len(Result.items) :
           Result.items[i].item_name
               \notin Range(Result.surplus_items) \cup Range(Result.deficit_items)
                      \cup Range(Result.low_stock_items)

(***************************************************************************)
(* C3: status is a function of surplus_deficit with threshold 10: above 0  *)
(* and below 10 is LOW_STOCK, 10 and more is SURPLUS, below 0 is DEFICIT,  *)
(* 0 is BALANCED; an item is in the list of its status and in no other.    *)
(***************************************************************************)
C3_StatusByThreshold ==
    Analyzed =>
        \A i \in 1..Len(Result.items) :
            LET item == Result.items[i]
                sd == item.surplus_deficit
            IN  /\ (sd > 0 /\ sd < 10) => item.status = "low_stock"
                /\ sd >= 10 => item.status = "surplus"
                /\ sd < 0 => item.status = "deficit"
                /\ sd = 0 => item.status = "balanced"
                /\ item.item_name \in Range(Result.low_stock_items)
                       <=> item.status = "low_stock"
                /\ item.item_name \in Range(Result.surplus_items)
                       <=> item.status = "surplus"
                /\ item.item_name \in Range(Result.deficit_items)
                       <=> item.status = "deficit"

\* Items at 9 and at exactly 10, a deficit and a balanced item
C3_Witness ==
    /\ Analyzed
    /\ \E i, j, k, l \in 1..Len(Result.items) :
           /\ Result.items[i].surplus_deficit = 9
           /\ Result.items[j].surplus_deficit = 10
           /\ Result.items[k].surplus_deficit < 0
           /\ Result.items[l].surplus_deficit = 0

(***************************************************************************)
(* C4: top_selling_items has min(5, number of items) names, in             *)
(* non-increasing order of sold quantity, items that sold as much in the   *)
(* order they were first met (purchase bills, then sales bills); no item   *)
(* left out ranks before one that is listed.                               *)
(***************************************************************************)
C4_TopSellingRanked ==
    Analyzed =>
        LET top == Result.top_selling_items
            names == {Result.items[i].item_name : i \in 1..Len(Result.items)}
        IN  /\ Len(top) = IF Len(Result.items) < 5 THEN Len(Result.items) ELSE 5
            /\ Range(top) \subseteq names
            /\ \A k, l \in 1..Len(top) : k < l => RanksBefore(top[k], top[l])
            /\ \A name \in names \ Range(top) :
                   \A k \in 1..Len(top) : RanksBefore(top[k], name)

\* More than five items, two listed ones that sold as much, one left out
C4_Witness ==
    /\ Analyzed
    /\ Len(Result.items) > 5
    /\ \E k \in 1..4 :
           /\ Sold(Result.top_selling_items[k]) > 0
           /\ Sold(Result.top_selling_items[k]) = Sold(Result.top_selling_items[k + 1])
    /\ Sold(Result.top_selling_items[1]) > Sold(Result.top_selling_items[5])

(***************************************************************************)
(* C5: analyze produces exactly one item per distinct normalized name      *)
(* (lower-cased, stripped, inner whitespace runs collapsed) among the line *)
(* items of both sets, and sums into it the quantities of every line item  *)
(* with that normalized name.                                              *)
(***************************************************************************)
\* The normalization as the claim words it
ClaimNormalized(name) == StrJoin(StrSplit(StrLower(name)))

RECURSIVE ClaimQtySum(_, _)
ClaimQtySum(lines, key) ==
    IF lines = <<>> THEN 0
    ELSE (IF ClaimNormalized(Head(lines).item_name) = key
          THEN Head(lines).quantity ELSE 0)
         + ClaimQtySum(Tail(lines), key)

C5_OneItemPerNormalizedName ==
    Analyzed =>
        LET lines == PurchaseLines \o SalesLines
            keys == {ClaimNormalized(lines[i].item_name) : i \in 1..Len(lines)}
        IN  /\ Len(Result.items) = Cardinality(keys)
            /\ \A key \in keys :
                   \E i \in 1..Len(Result.items) :
                       /\ Result.items[i].item_name = key
                       /\ Result.items[i].purchased_qty = ClaimQtySum(PurchaseLines, key)
                       /\ Result.items[i].sold_qty = ClaimQtySum(SalesLines, key)

(***************************************************************************)
(* C6: service charges never reach stock accounting: the result of         *)
(* analyze is the one the same bills give with every charge-named line     *)
(* entry and every additional charge taken out of the responses; the items *)
(* are those of the other line entries and the totals are the sums of      *)
(* their positive amounts.                                                 *)
(***************************************************************************)
IsProductLine(item) == ~LineIsCharge(item)

WithoutCharges(data) ==
    [data EXCEPT !.line_items = SelectSeq(data.line_items, IsProductLine),
                 !.additional_charges = <<>>]

BillsWithoutCharges(raws) ==
    [i \in 1..Len(raws) |-> BillOf(extract(WithoutCharges(raws[i])))]

RECURSIVE ProductEntries(_)
ProductEntries(raws) ==
    IF raws = <<>> THEN <<>>
    ELSE SelectSeq(Head(raws).line_items, IsProductLine) \o ProductEntries(Tail(raws))

RECURSIVE PositiveAmounts(_)
PositiveAmounts(entries) ==
    IF entries = <<>> THEN 0
    ELSE (IF LineAmount(Head(entries)) > 0 THEN LineAmount(Head(entries)) ELSE 0)
         + PositiveAmounts(Tail(entries))

C6_ChargesOutsideStock ==
    Analyzed =>
        LET entries == ProductEntries(purchase_raw) \o ProductEntries(sales_raw)
        IN  /\ Result = analyze(BillsWithoutCharges(purchase_raw),
                                BillsWithoutCharges(sales_raw))
            /\ Len(Result.items) =
                   Cardinality({_normalize_item_name(LineName(entries[i]).v) :
                                    i \in 1..Len(entries)})
            /\ Result.total_purchase_value = PositiveAmounts(ProductEntries(purchase_raw))
            /\ Result.total_sales_value = PositiveAmounts(ProductEntries(sales_raw))

\* A purchase bill with a charge-named entry that has an amount, an
\* additional charge, and a product
C6_Witness ==
    /\ Analyzed
    /\ Result.total_purchase_value > 0
    /\ \E b \in 1..Len(purchase_raw) :
           /\ purchase_raw[b].additional_charges # <<>>
           /\ purchase_data[b].line_items # <<>>
           /\ \E i \in 1..Len(purchase_raw[b].line_items) :
                  /\ LineIsCharge(purchase_raw[b].line_items[i])
                  /\ LineAmount(purchase_raw[b].line_items[i]) > 0

(***************************************************************************)
(* C7: for each set with a normalized date, the range analyze reports is   *)
(* the chronologically earliest and latest of the set's normalized dates   *)
(* (stated for the sets whose normalized dates all read DD/MM/YYYY).       *)
(***************************************************************************)
IsCanonicalDate(s) ==
    /\ Len(s) = 10
    /\ s[3] = "/" /\ s[6] = "/"
    /\ AllDigits(SubSeq(s, 1, 2)) /\ AllDigits(SubSeq(s, 4, 5))
    /\ AllDigits(SubSeq(s, 7, 10))

\* Year, month, day as one number
Chronological(s) ==
    IntOf(SubSeq(s, 7, 10)) * 10000 + IntOf(SubSeq(s, 4, 5)) * 100
    + IntOf(SubSeq(s, 1, 2))

ChronologicalRange(range, dates) ==
    (dates # <<>> /\ \A i \in 1..Len(dates) : IsCanonicalDate(dates[i])) =>
        /\ range[1].v \in Range(dates)
        /\ range[2].v \in Range(dates)
        /\ \A i \in 1..Len(dates) :
               /\ Chronological(range[1].v) <= Chronological(dates[i])
               /\ Chronological(dates[i]) <= Chronological(range[2].v)

C7_RangeIsChronological ==
    Analyzed =>
        /\ ChronologicalRange(Result.purchase_date_range, _extract_dates(purchase_data))
        /\ ChronologicalRange(Result.sales_date_range, _extract_dates(sales_data))

(***************************************************************************)
(* C8: date_mismatch_warning is empty when either range is absent and when *)
(* both are present with equal starts and equal ends; it is non-empty and  *)
(* names both ranges when both are present and a start or an end differs.  *)
(***************************************************************************)
RangeAbsent(range) == range[1].t = "null"

C8_MismatchWarning ==
    Analyzed =>
        LET p == Result.purchase_date_range
            s == Result.sales_date_range
            warning == Result.date_mismatch_warning
        IN  /\ RangeAbsent(p) <=> _extract_dates(purchase_data) = <<>>
            /\ RangeAbsent(s) <=> _extract_dates(sales_data) = <<>>
            /\ (RangeAbsent(p) \/ RangeAbsent(s)) => warning = <<>>
            /\ (~RangeAbsent(p) /\ ~RangeAbsent(s) /\ p = s) => warning = <<>>
            /\ (~RangeAbsent(p) /\ ~RangeAbsent(s) /\ p # s) =>
                   /\ Len(warning) = 5
                   /\ <<warning[2], warning[3]>> = <<p[1].v, p[2].v>>
                   /\ <<warning[4], warning[5]>> = <<s[1].v, s[2].v>>

\* Both ranges present, the same start, another end
C8_Witness ==
    /\ Analyzed
    /\ ~RangeAbsent(Result.purchase_date_range)
    /\ ~RangeAbsent(Result.sales_date_range)
    /\ Result.purchase_date_range[1] = Result.sales_date_range[1]
    /\ Result.purchase_date_range[2] # Result.sales_date_range[2]
    /\ Result.date_mismatch_warning # <<>>

(***************************************************************************)
(* C9: insights holds a CRITICAL line iff there are deficit items, an      *)
(* ALERT line iff low-stock items, a GOOD line iff surplus items, a TOP    *)
(* line iff top-selling items, and exactly one SUMMARY line, last; the     *)
(* lines stand in the order CRITICAL, ALERT, GOOD, TOP, SUMMARY and print  *)
(* the lengths of their lists.                                             *)
(***************************************************************************)
InsightRank(tag) ==
    CASE tag = "CRITICAL" -> 1
      [] tag = "ALERT" -> 2
      [] tag = "GOOD" -> 3
      [] tag = "TOP" -> 4
      [] tag = "SUMMARY" -> 5

InsightFor(tag, list) ==
    LET lines == {i \in 1..Len(Result.insights) : Result.insights[i][1] = tag}
    IN  /\ lines # {} <=> list # <<>>
        /\ \A i \in lines : Result.insights[i][2] = Len(list)

C9_InsightsInOrder ==
    Analyzed =>
        LET ins == Result.insights
        IN  /\ InsightFor("CRITICAL", Result.deficit_items)
            /\ InsightFor("ALERT", Result.low_stock_items)
            /\ InsightFor("GOOD", Result.surplus_items)
            /\ InsightFor("TOP", Result.top_selling_items)
            /\ \A i \in 1..Len(ins) : ins[i][1] = "ALERT" => ins[i][3] = 10
            /\ \A i, j \in 1..Len(ins) :
                   i < j => InsightRank(ins[i][1]) < InsightRank(ins[j][1])
            /\ ins # <<>>
            /\ ins[Len(ins)] = <<"SUMMARY", Len(purchase_data), Len(sales_data),
                                 Len(Result.items)>>

\* All five lines
C9_Witness ==
    /\ Analyzed
    /\ Len(Result.insights) = 5
    /\ Len(Result.deficit_items) # Len(Result.surplus_items)

(***************************************************************************)
(* C10: phantom discount correction.  For a line entry that extract emits  *)
(* as a line item with amount > 0 (after the backfill), rate > 0 and a     *)
(* declared discount > 0, the emitted discount_percent is 0 when           *)
(* |quantity * rate - amount| < 1.0 and the declared discount when it is   *)
(* 1.0 or more, quantity being the emitted one; a given rate, a non-zero   *)
(* quantity and a non-zero amount are emitted as given.  50 at rate 10     *)
(* with amount 500 and declared discount 18 is emitted with discount 0.    *)
(***************************************************************************)
Extracted == extracted.v

ExtractionSucceeded ==
    ~NotExtracted /\ Extracted.extraction_notes = <<"Extracted using Groq AI">>

\* The line item emitted for entry i of the response, a product
EmittedFor(i) ==
    Extracted.line_items[Len(SelectSeq(SubSeq(response.line_items, 1, i), IsProductLine))]

Declared(j) == IF j.t = "num" THEN j.v ELSE 0

EmittedAmount(i) ==
    LET upto == SubSeq(response.line_items, 1, i)
    IN  IF IsProductLine(response.line_items[i])
        THEN EmittedFor(i).amount
        ELSE Extracted.additional_charges[Len(SelectSeq(upto, LineIsCharge))].amount

\* amount, in hundredths, is quantity * rate less the discount
IsBackfillOf(amount, quantity, rate, discount) ==
    IF discount > 0
    THEN amount * 100 = quantity * rate * (100 - discount)
    ELSE amount = quantity * rate

BackfillAsClaimed(entry, amount, quantity) ==
    LET given == Declared(entry.amount)
        rate == Declared(entry.rate)
    IN  /\ given # 0 => amount = given
        /\ (given = 0 /\ rate > 0) =>
               IsBackfillOf(amount, quantity, rate, Declared(entry.discount_percent))
        /\ (given = 0 /\ rate = 0) => amount = 0

\* With the quantity of the entry as it is in the response
C11_BackfillByRawQuantity ==
    ExtractionSucceeded =>
        \A i \in 1..Len(response.line_items) :
            BackfillAsClaimed(response.line_items[i], EmittedAmount(i),
                              Declared(response.line_items[i].quantity))

\* With a quantity of 0 taken as 1, as `item.get("quantity", 1) or 1` has it
C11_AmountBackfill ==
    ExtractionSucceeded =>
        \A i \in 1..Len(response.line_items) :
            LET quantity == Declared(response.line_items[i].quantity)
            IN  BackfillAsClaimed(response.line_items[i], EmittedAmount(i),
                                  IF quantity = 0 THEN 1 ELSE quantity)

\* A backfill with a discount beside a backfill for a quantity of 0
C11_Witness ==
    /\ ExtractionSucceeded
    /\ Len(response.line_items) = 2
    /\ response.line_items[1] = RawLine(Str(CUP), Num(2), Num(1000), Num(18), Num(0))
    /\ EmittedAmount(1) = 1640
    /\ response.line_items[2] = RawLine(Str(CUP), Num(0), Num(1000), Num(0), Num(0))
    /\ EmittedAmount(2) = 1000

EmptyResult ==
    /\ Result.items = <<>>
    /\ Result.surplus_items = <<>>
    /\ Result.deficit_items = <<>>
    /\ Result.low_stock_items = <<>>
    /\ Result.top_selling_items = <<>>
    /\ Result.total_purchase_value = 0
    /\ Result.total_sales_value = 0
    /\ Result.purchase_date_range = <<None, None>>
    /\ Result.sales_date_range = <<None, None>>
    /\ Result.date_mismatch_warning = <<>>
    /\ Result.insights = << <<"SUMMARY", 0, 0, 0>> >>

C13_EmptySetsAccepted ==
    Analyzed =>
        /\ (purchase_data = <<>> /\ sales_data = <<>>) => EmptyResult
        /\ (purchase_data = <<>> /\ sales_data # <<>>) =>
               \A i \in 1..Len(Result.items) :
                   LET item == Result.items[i]
                   IN  /\ item.surplus_deficit = -item.sold_qty
                       /\ item.sold_qty > 0 =>
                              /\ item.status = "deficit"
                              /\ item.item_name \in Range(Result.deficit_items)
        /\ (purchase_data # <<>> /\ sales_data = <<>>) =>
               \A i \in 1..Len(Result.items) :
                   Result.items[i].surplus_deficit = Result.items[i].purchased_qty

\* analyze has returned for two empty sets
C13_Witness ==
    /\ Analyzed
    /\ purchase_data = <<>>
    /\ sales_data = <<>>
    /\ Len(Result.insights) = 1

\* analyze has returned for sales alone, and for purchases alone
C13_SalesAlone ==
    /\ Analyzed /\ purchase_data = <<>>
    /\ \E i \in 1..Len(Result.items) : Result.items[i].status = "deficit"

C13_PurchasesAlone ==
    /\ Analyzed /\ sales_data = <<>>
    /\ \E i \in 1..Len(Result.items) : Result.items[i].surplus_deficit > 0

(***************************************************************************)
(* C14: a line entry whose name is missing, empty or blank is accounted    *)
(* under the item "Unknown Item": when the bills hold such entries, the    *)
(* result has the item "Unknown Item" with the summed quantities of all    *)
(* of them, and the named products of the same bills have their items.     *)
(***************************************************************************)
IsNameless(entry) ==
    \/ entry.item_name.t = "missing"
    \/ entry.item_name.t = "str" /\ StrStrip(entry.item_name.v) = <<>>

IsNamedProduct(entry) == ~IsNameless(entry) /\ IsProductLine(entry)

RECURSIVE EntriesOf(_)
EntriesOf(raws) ==
    IF raws = <<>> THEN <<>> ELSE Head(raws).line_items \o EntriesOf(Tail(raws))

RECURSIVE RawQtySum(_)
RawQtySum(entries) ==
    IF entries = <<>> THEN 0 ELSE LineQty(Head(entries)) + RawQtySum(Tail(entries))

C14_NamelessIsUnknownItem ==
    Analyzed =>
        LET bought == SelectSeq(EntriesOf(purchase_raw), IsNameless)
            sold == SelectSeq(EntriesOf(sales_raw), IsNameless)
            named == SelectSeq(EntriesOf(purchase_raw) \o EntriesOf(sales_raw),
                               IsNamedProduct)
        IN  /\ (bought # <<>> \/ sold # <<>>) =>
                   \E i \in 1..Len(Result.items) :
                       /\ Result.items[i].item_name = UNKNOWN_ITEM
                       /\ Result.items[i].purchased_qty = RawQtySum(bought)
                       /\ Result.items[i].sold_qty = RawQtySum(sold)
            /\ \A k \in 1..Len(named) :
                   \E i \in 1..Len(Result.items) :
                       Result.items[i].item_name =
                           _normalize_item_name(named[k].item_name.v)

(***************************************************************************)
(* C15: a bill whose date is absent, empty, blank or a string that         *)
(* resembles no date is dateless: the range of its set is the range of     *)
(* the other bills of the set, absent when every bill of the set is        *)
(* dateless, and the items, lists, counts and totals are those the same    *)
(* bills give under valid dates.                                           *)
(***************************************************************************)
HasDigit(s) == \E i \in 1..Len(s) : IsDigit(s[i])

\* The date of a response: no key, null, empty, blank, or nothing like a date
IsDateless(data) ==
    \/ data.date.t \in {"missing", "null"}
    \/ data.date.t = "str" /\ (StrStrip(data.date.v) = <<>> \/ ~HasDigit(data.date.v))

IsDated(data) == ~IsDateless(data)

\* Of the bills handed to analyze, those whose response is dated
RECURSIVE DatedBills(_, _)
DatedBills(raws, bills) ==
    IF raws = <<>> THEN <<>>
    ELSE (IF IsDated(Head(raws)) THEN <<Head(bills)>> ELSE <<>>)
         \o DatedBills(Tail(raws), Tail(bills))

RangeOfDated(raws, bills) == DateRange(_extract_dates(DatedBills(raws, bills)))

AllDateless(raws) == \A i \in 1..Len(raws) : IsDateless(raws[i])

\* The bills whose date is not the one of the first call are dateless now
OnlyDatelessNow(raws, now, before) ==
    \A i \in 1..Len(raws) :
        now[i].date # before[i].date => IsDateless(raws[i])

SameAggregation(a, b) ==
    /\ a.items = b.items
    /\ a.surplus_items = b.surplus_items
    /\ a.deficit_items = b.deficit_items
    /\ a.low_stock_items = b.low_stock_items
    /\ a.top_selling_items = b.top_selling_items
    /\ a.purchase_bill_count = b.purchase_bill_count
    /\ a.sales_bill_count = b.sales_bill_count
    /\ a.total_purchase_value = b.total_purchase_value
    /\ a.total_sales_value = b.total_sales_value

C15_DatelessBills ==
    Analyzed =>
        LET now == calls[Len(calls)]
        IN  /\ Result.purchase_date_range = RangeOfDated(purchase_raw, now.purchase_data)
            /\ Result.sales_date_range = RangeOfDated(sales_raw, now.sales_data)
            /\ AllDateless(purchase_raw) => RangeAbsent(Result.purchase_date_range)
            /\ AllDateless(sales_raw) => RangeAbsent(Result.sales_date_range)
            /\ (/\ Len(calls) = 2
                /\ OnlyDatelessNow(purchase_raw, now.purchase_data, calls[1].purchase_data)
                /\ OnlyDatelessNow(sales_raw, now.sales_data, calls[1].sales_data))
                   => SameAggregation(calls[1].analysis, Result)

\* Two purchase bills analyzed under valid dates, then with the first one
\* under a date that resembles none: the range is the second bill's date
C15_Witness ==
    /\ Analyzed /\ Len(calls) = 2
    /\ Len(purchase_raw) = 2
    /\ purchase_raw[1].date = Str(DATE_NONE_SUCH)
    /\ IsDated(purchase_raw[2])
    /\ Result.purchase_date_range = <<purchase_raw[2].date, purchase_raw[2].date>>
    /\ Result.items # <<>>
    /\ Result.items = calls[1].analysis.items

\* Every purchase bill without a date key: no range
C15_AllDateless ==
    /\ Analyzed /\ Len(calls) = 2
    /\ Len(purchase_raw) = 2
    /\ \A i \in 1..2 : purchase_raw[i].date = Missing
    /\ RangeAbsent(Result.purchase_date_range)

(***************************************************************************)
(* C16: dates only annotate the result.  Two calls of analyze on inputs    *)
(* that are the same but for the dates of their bills agree on the items,  *)
(* the four lists, the insights, the bill counts and the total values; a   *)
(* date-range mismatch changes nothing of these.                           *)
(***************************************************************************)
SameButForDates(a, b) ==
    /\ Len(a) = Len(b)
    /\ \A i \in 1..Len(a) : [a[i] EXCEPT !.date = None] = [b[i] EXCEPT !.date = None]

C16_DatesOnlyAnnotate ==
    \A i, j \in 1..Len(calls) :
        (/\ SameButForDates(calls[i].purchase_data, calls[j].purchase_data)
         /\ SameButForDates(calls[i].sales_data, calls[j].sales_data))
            => /\ SameAggregation(calls[i].analysis, calls[j].analysis)
               /\ calls[i].analysis.insights = calls[j].analysis.insights

\* The same bills with no mismatch first, then with one
C16_Witness ==
    /\ Len(calls) = 2
    /\ calls[1].purchase_data # calls[2].purchase_data
    /\ calls[1].analysis.date_mismatch_warning = <<>>
    /\ calls[2].analysis.date_mismatch_warning # <<>>
    /\ calls[2].analysis.items # <<>>
    /\ calls[2].analysis.deficit_items # <<>>

(***************************************************************************)
(* C17: value accumulation.  An item's purchased_value (sold_value) is     *)
(* the sum of the amounts > 0 of its purchase (sales) line items, its      *)
(* quantities are summed over all of its line items whatever their         *)
(* amount, and total_purchase_value (total_sales_value) is the sum of      *)
(* purchased_value (sold_value) over the items.                            *)
(***************************************************************************)
\* The sum of the amounts > 0 of the line items with this normalized name
RECURSIVE ValueSum(_, _)
ValueSum(lines, name) ==
    IF lines = <<>> THEN 0
    ELSE (IF NameOf(Head(lines).item_name) = name /\ Head(lines).amount > 0
          THEN Head(lines).amount ELSE 0)
         + ValueSum(Tail(lines), name)

RECURSIVE SumOver(_, _)
SumOver(items, f) ==
    IF items = <<>> THEN 0 ELSE Head(items)[f] + SumOver(Tail(items), f)

C17_ValueAccumulation ==
    Analyzed =>
        /\ \A i \in 1..Len(Result.items) :
               LET item == Result.items[i]
               IN  /\ item.purchased_value = ValueSum(PurchaseLines, item.item_name)
                   /\ item.sold_value = ValueSum(SalesLines, item.item_name)
                   /\ item.purchased_qty = QtySum(PurchaseLines, item.item_name)
                   /\ item.sold_qty = QtySum(SalesLines, item.item_name)
        /\ Result.total_purchase_value = SumOver(Result.items, "purchased_value")
        /\ Result.total_sales_value = SumOver(Result.items, "sold_value")

\* An item bought twice, once with a negative amount: the quantity counts
\* both line items, the value one
C17_Witness ==
    /\ Analyzed
    /\ \E i \in 1..Len(Result.items) :
           /\ Result.items[i].purchased_qty = 2
           /\ Result.items[i].purchased_value > 0
           /\ \E k, l \in 1..Len(PurchaseLines) :
                  /\ _normalize_item_name(PurchaseLines[k].item_name) = Result.items[i].item_name
                  /\ _normalize_item_name(PurchaseLines[l].item_name) = Result.items[i].item_name
                  /\ PurchaseLines[k].amount < 0
                  /\ PurchaseLines[l].amount = Result.items[i].purchased_value
    /\ Result.total_sales_value > 0

(***************************************************************************)
(* C18: every item of a result of analyze has purchased_qty >= 0 and       *)
(* sold_qty >= 0, whatever line items extract emitted.                     *)
(***************************************************************************)
C18_QuantitiesNonNegative ==
    Analyzed =>
        \A i \in 1..Len(Result.items) :
            /\ Result.items[i].purchased_qty >= 0
            /\ Result.items[i].sold_qty >= 0

(***************************************************************************)
(* C19: negative quantities and rates are not corrected by extract and     *)
(* are reported by the validator: a line entry with a product's name and   *)
(* a negative quantity or rate is emitted as a line item with that same    *)
(* quantity or rate, and validate then returns is_valid = false with an    *)
(* error naming that line item.                                            *)
(***************************************************************************)
\* The position in line_items of the line item emitted for entry i
EmittedIndex(i) ==
    Len(SelectSeq(SubSeq(response.line_items, 1, i), IsProductLine))

ErrorsOf(k) ==
    {validation.errors[e] : e \in {e \in 1..Len(validation.errors) :
                                      /\ validation.errors[e][1] = "Line item"
                                      /\ validation.errors[e][2] = k}}

C19_NegativeQuantity ==
    /\ ExtractionSucceeded
    /\ Len(response.line_items) = 1
    /\ Extracted.line_items[1].quantity = -5
    /\ <<"Line item", 1, "Quantity cannot be negative">> \in ErrorsOf(1)

ParsingFormats(s) == {k \in 1..Len(DATE_FORMATS) : strptime(s, DATE_FORMATS[k]).ok}

\* number, separator, number, separator, number of 2 or 4 digits
HasDateShape(s) ==
    \E i, j \in 1..Len(s) :
        /\ i < j
        /\ s[i] \in {"/", "-", "."} /\ s[j] \in {"/", "-", "."}
        /\ i - 1 \in 1..2 /\ AllDigits(SubSeq(s, 1, i - 1))
        /\ j - i - 1 \in 1..2 /\ AllDigits(SubSeq(s, i + 1, j - 1))
        /\ Len(s) - j \in {2, 4} /\ AllDigits(SubSeq(s, j + 1, Len(s)))

C21_DateNormalization ==
    normalized # NotCalled =>
        LET s == StrStrip(date_arg)
            parsing == ParsingFormats(s)
        IN  IF parsing # {}
            THEN LET k == CHOOSE k \in parsing : \A l \in parsing : k <= l
                 IN  normalized = Str(strftime(strptime(s, DATE_FORMATS[k])))
            ELSE IF HasDateShape(s) THEN normalized = Str(s)
            ELSE normalized = None

(***************************************************************************)
(* C22: the phantom-discount test comes after the amount backfill and is   *)
(* applied to the backfilled amount.  A line entry with amount 0,          *)
(* rate > 0 and discount d > 0 is emitted with amount                      *)
(* quantity * rate * (1 - d/100), and with discount_percent 0 iff          *)
(* |quantity * rate - amount| < 1.0, otherwise d; every emitted line item  *)
(* with discount_percent > 0, rate > 0 and amount > 0 has                  *)
(* |quantity * rate - amount| >= 1.0.  As stated, the test decides for     *)
(* every such entry; as the code has it, only for a backfilled amount > 0. *)
(***************************************************************************)
\* Entry i of the response has no amount, a rate and a discount
IsDiscountedBackfill(i) ==
    LET entry == response.line_items[i]
    IN  /\ IsProductLine(entry)
        /\ Declared(entry.amount) = 0
        /\ Declared(entry.rate) > 0
        /\ Declared(entry.discount_percent) > 0

Off(e) == Abs(e.quantity * e.rate - e.amount)

\* What both readings share
BackfilledThenTested(i) ==
    LET e == EmittedFor(i)
        d == Declared(response.line_items[i].discount_percent)
    IN  /\ e.amount * 100 = e.quantity * e.rate * (100 - d)
        /\ e.discount_percent \in {0, d}

NoPhantomLeft ==
    \A k \in 1..Len(Extracted.line_items) :
        LET e == Extracted.line_items[k]
        IN  (e.discount_percent > 0 /\ e.rate > 0 /\ e.amount > 0) => Off(e) >= 100

C22_TestDecidesEveryBackfill ==
    ExtractionSucceeded =>
        /\ \A i \in 1..Len(response.line_items) :
               IsDiscountedBackfill(i) =>
                   /\ BackfilledThenTested(i)
                   /\ EmittedFor(i).discount_percent = 0 <=> Off(EmittedFor(i)) < 100
        /\ NoPhantomLeft

C22_PhantomTestAfterBackfill ==
    ExtractionSucceeded =>
        /\ \A i \in 1..Len(response.line_items) :
               IsDiscountedBackfill(i) =>
                   /\ BackfilledThenTested(i)
                   /\ EmittedFor(i).discount_percent = 0
                          <=> (EmittedFor(i).amount > 0 /\ Off(EmittedFor(i)) < 100)
        /\ NoPhantomLeft

\* 1 at 0.50 with a declared 18: backfilled to 0.41, 0.09 off, the discount
\* zeroed; beside it 2 at 10.00, backfilled to 16.40, that keeps its 18
C22_Witness ==
    /\ ExtractionSucceeded
    /\ Len(response.line_items) = 2
    /\ response.line_items[1] = RawLine(Str(PEN), Num(1), Num(50), Num(18), Num(0))
    /\ Extracted.line_items[1].amount = 41
    /\ Extracted.line_items[1].discount_percent = 0
    /\ response.line_items[2] = RawLine(Str(CUP), Num(2), Num(1000), Num(18), Num(0))
    /\ Extracted.line_items[2].discount_percent = 18

(***************************************************************************)
(* C23: bills are folded in the order supplied.  result.items lists the    *)
(* items in the order their names are first met, scanning the purchase     *)
(* bills in list order, each bill's line items in order, and then the      *)
(* sales bills; an item first met in a sales bill comes after every item   *)
(* of the purchase bills; surplus_items, deficit_items and                 *)
(* low_stock_items are each a subsequence of that order.                   *)
(***************************************************************************)
ItemNames == [i \in 1..Len(Result.items) |-> Result.items[i].item_name]

\* The position of a name among the items
ItemIndex(name) == CHOOSE i \in 1..Len(Result.items) : Result.items[i].item_name = name

InItemOrder(list) ==
    /\ Range(list) \subseteq Range(ItemNames)
    /\ \A k, l \in 1..Len(list) : k < l => ItemIndex(list[k]) < ItemIndex(list[l])

C23_FoldedInOrder ==
    Analyzed =>
        LET lines == PurchaseLines \o SalesLines
        IN  /\ Range(ItemNames) = {NameOf(lines[k].item_name) : k \in 1..Len(lines)}
            /\ \A i, j \in 1..Len(ItemNames) :
                   i < j => FirstSeen(ItemNames[i]) < FirstSeen(ItemNames[j])
            /\ \A i, j \in 1..Len(ItemNames) :
                   (/\ FirstSeen(ItemNames[i]) > Len(PurchaseLines)
                    /\ FirstSeen(ItemNames[j]) <= Len(PurchaseLines)) => j < i
            /\ InItemOrder(Result.surplus_items)
            /\ InItemOrder(Result.deficit_items)
            /\ InItemOrder(Result.low_stock_items)

\* Two purchase bills and a sales bill with an item of its own; the second
\* purchase bill brings an item the first has not; a list of two names
C23_Witness ==
    /\ Analyzed
    /\ Len(purchase_data) = 2 /\ Len(sales_data) = 1
    /\ \E i \in 1..Len(ItemNames) : FirstSeen(ItemNames[i]) > Len(PurchaseLines)
    /\ \E i \in 1..Len(ItemNames) :
           /\ FirstSeen(ItemNames[i]) > Len(purchase_data[1].line_items)
           /\ FirstSeen(ItemNames[i]) <= Len(PurchaseLines)
    /\ \E list \in {Result.surplus_items, Result.deficit_items, Result.low_stock_items} :
           Len(list) >= 2

(***************************************************************************)
(* C24: charge classification.  Every entry of the response's line_items   *)
(* goes to exactly one output: to additional_charges iff its lower-cased   *)
(* name contains one of the service keywords, else to line_items; the      *)
(* emitted line items and the reclassified charges are as many as the      *)
(* entries.  A reclassified charge carries the name and the amount after   *)
(* the backfill, with quantity and rate 0; an emitted line item keeps its  *)
(* name, quantity and rate.  As stated, the quantity is kept whatever it   *)
(* is; as the code has it, a quantity of 0 is emitted as 1.                *)
(***************************************************************************)
\* The lower-cased name of the entry contains a keyword
NameHasKeyword(entry) ==
    LET lower == StrLower(entry.item_name.v)
    IN  \E kw \in CHARGE_KEYWORDS :
            \E at \in 1..(Len(lower) - Len(kw) + 1) :
                SubSeq(lower, at, at + Len(kw) - 1) = kw

\* How many of the first i entries have a keyword in their name
RECURSIVE KeywordEntries(_)
KeywordEntries(i) ==
    IF i = 0 THEN 0
    ELSE KeywordEntries(i - 1) + (IF NameHasKeyword(response.line_items[i]) THEN 1 ELSE 0)

QuantityGiven(entry) == Declared(entry.quantity)

QuantityOrOne(entry) == IF Declared(entry.quantity) = 0 THEN 1 ELSE Declared(entry.quantity)

\* Entry i is routed as claimed, quantity(entry) being the quantity a line
\* item is to carry
RoutedAsClaimed(i, quantity(_)) ==
    LET entry == response.line_items[i]
        k == KeywordEntries(i)
    IN  IF NameHasKeyword(entry)
        THEN /\ k <= Len(Extracted.additional_charges)
             /\ LET charge == Extracted.additional_charges[k]
                IN  /\ charge.charge_name = entry.item_name.v
                    /\ BackfillAsClaimed(entry, charge.amount, QuantityOrOne(entry))
                    /\ charge.quantity = 0
                    /\ charge.rate = 0
        ELSE /\ i - k <= Len(Extracted.line_items)
             /\ LET e == Extracted.line_items[i - k]
                IN  /\ e.item_name = entry.item_name.v
                    /\ e.quantity = quantity(entry)
                    /\ e.rate = Declared(entry.rate)

AsManyAsEntries ==
    /\ Len(Extracted.line_items) + KeywordEntries(Len(response.line_items))
           = Len(response.line_items)
    /\ Len(Extracted.additional_charges) >= KeywordEntries(Len(response.line_items))

C24_KeywordInsideWord ==
    /\ ExtractionSucceeded
    /\ Len(response.line_items) = 1
    /\ response.line_items[1].item_name = Str(DISCHARGE_VALVE)
    /\ Extracted.line_items = <<>>
    /\ Len(Extracted.additional_charges) = 1

(***************************************************************************)
(* C25: a ValidationResult, after any sequence of add_error and            *)
(* add_warning from a fresh result, has is_valid true iff errors is        *)
(* empty; add_warning changes neither is_valid nor errors; once add_error  *)
(* has been called is_valid stays false.                                   *)
(***************************************************************************)
ValidIffNoError == validation.is_valid <=> validation.errors = <<>>

WarningAdded == Len(validation'.warnings) = Len(validation.warnings) + 1

C25_ValidIffNoErrors ==
    /\ []ValidIffNoError
    /\ [][/\ WarningAdded =>
                 /\ validation'.is_valid = validation.is_valid
                 /\ validation'.errors = validation.errors
          /\ validation.errors # <<>> => ~validation'.is_valid]_vars

\* An error, then warnings after it: still invalid
C25_Witness ==
    /\ Len(validation.errors) = 1
    /\ Len(validation.warnings) = 2
    /\ ~validation.is_valid

(***************************************************************************)
(* C26: single-session enforcement.  Under any interleaving of logins with *)
(* correct credentials, at most one login is answered with a token between *)
(* two consecutive events that end the session (logout, disabling, 24      *)
(* hours without activity); every other login in the interval gets 409.    *)
(***************************************************************************)
C26_SingleSession == Cardinality(tokens) <= 1

(***************************************************************************)
(* C27: extract is all-or-nothing per bill.  If the conversion of any raw  *)
(* line item, raw charge or header number fails (a quantity that is no     *)
(* number, a null item name), the returned ExtractedData has no line       *)
(* items, no additional charges, subtotal, tax and total 0, an empty       *)
(* invoice number, date and vendor, and the note of the error alone; line  *)
(* items converted before the failure are not returned.                    *)
(***************************************************************************)
NoNumber(j) == j.t = "str" /\ j.v # <<>>

LineFails(entry) ==
    \/ \E j \in {entry.quantity, entry.rate, entry.discount_percent, entry.amount} :
           NoNumber(j)
    \/ entry.item_name.t = "null"

ChargeFails(charge) ==
    \E j \in {charge.amount, charge.quantity, charge.rate} : NoNumber(j)

HeaderFails ==
    \E j \in {response.cgst, response.sgst, response.igst, response.subtotal,
              response.total} : NoNumber(j)

ConversionFails ==
    \/ HeaderFails
    \/ \E i \in 1..Len(response.line_items) : LineFails(response.line_items[i])
    \/ \E i \in 1..Len(response.additional_charges) :
           ChargeFails(response.additional_charges[i])

NothingReturned ==
    /\ Extracted.line_items = <<>>
    /\ Extracted.additional_charges = <<>>
    /\ Extracted.subtotal = 0 /\ Extracted.tax = 0 /\ Extracted.total = 0
    /\ Extracted.invoice_number = Str(<<>>)
    /\ Extracted.date = Str(<<>>)
    /\ Extracted.vendor_name = Str(<<>>)
    /\ Extracted.extraction_notes = <<"Extraction error">>

C27_AllOrNothing ==
    (~NotExtracted /\ ConversionFails) => NothingReturned

\* A product that converts, then an entry whose quantity is "two", under a
\* header with number, vendor and totals
C27_Witness ==
    /\ ~NotExtracted
    /\ Len(response.line_items) = 2
    /\ ~LineFails(response.line_items[1])
    /\ response.line_items[1].item_name = Str(CUP)
    /\ LineFails(response.line_items[2])
    /\ response.total = Num(23600)
    /\ NothingReturned

\* The failure is in a raw charge, after all line items converted
C27_ChargeFails ==
    /\ ~NotExtracted
    /\ Len(response.line_items) = 2
    /\ \A i \in 1..2 : ~LineFails(response.line_items[i])
    /\ ~HeaderFails
    /\ ConversionFails
    /\ NothingReturned

(***************************************************************************)
(* C30: an entry of the raw additional_charges is kept in                  *)
(* ExtractedData.additional_charges iff its name is non-empty and its      *)
(* amount is > 0, then with its name, amount, quantity and rate unchanged; *)
(* an entry with amount 0 or a negative amount is dropped.  Kept raw       *)
(* charges come after the charges reclassified from line items, each group *)
(* in input order.  As the code has it, this is so for a response whose    *)
(* conversion does not fail.                                               *)
(***************************************************************************)
KeptAsClaimed(charge) ==
    /\ charge.charge_name.t = "str" /\ charge.charge_name.v # <<>>
    /\ charge.amount.t = "num" /\ charge.amount.v > 0

\* The raw charges to keep, in input order, as they are to be emitted
RECURSIVE KeptCharges(_)
KeptCharges(charges) ==
    IF charges = <<>> THEN <<>>
    ELSE (IF KeptAsClaimed(Head(charges))
          THEN <<[charge_name |-> Head(charges).charge_name.v,
                  amount |-> Head(charges).amount.v,
                  quantity |-> Declared(Head(charges).quantity),
                  rate |-> Declared(Head(charges).rate)]>>
          ELSE <<>>)
         \o KeptCharges(Tail(charges))

\* The names of the line items with a keyword in their name, in input order
RECURSIVE ReclassifiedNames(_)
ReclassifiedNames(items) ==
    IF items = <<>> THEN <<>>
    ELSE (IF Head(items).item_name.t = "str" /\ NameHasKeyword(Head(items))
          THEN <<Head(items).item_name.v>> ELSE <<>>)
         \o ReclassifiedNames(Tail(items))

KeptAfterReclassified ==
    LET kept == KeptCharges(response.additional_charges)
        names == ReclassifiedNames(response.line_items)
        out == Extracted.additional_charges
        n == Len(out) - Len(kept)
    IN  /\ n >= 0
        /\ SubSeq(out, n + 1, Len(out)) = kept
        /\ n <= Len(names)
        /\ \A k \in 1..n : out[k].charge_name = names[k]
        /\ kept # <<>> => n = Len(names)

C30_ZeroAndNameless ==
    /\ ExtractionSucceeded
    /\ response.additional_charges =
           << RawCharge(Str(FREIGHT), Num(1), Num(5000), Num(0)),
              RawCharge(Str(EMPTY), Num(1), Num(700), Num(700)) >>
    /\ Extracted.additional_charges = <<>>

(***************************************************************************)
(* C28: every LineItem emitted by extract has a non-zero quantity.  A raw  *)
(* line item whose quantity is missing, null or 0 is emitted with          *)
(* quantity 1, its backfilled amount and its phantom-discount test use     *)
(* quantity 1, and so a zero-quantity line adds one unit to the item's     *)
(* purchased or sold quantity in analyze.                                  *)
(***************************************************************************)
HasNoQuantity(entry) == Declared(entry.quantity) = 0

\* The entry has a product's name: no keyword in it
IsProductEntry(entry) == ~NameHasKeyword(entry)

\* The line item emitted for entry j of a response, a product
LineItemOf(data, bill, j) ==
    bill.line_items[Len(SelectSeq(SubSeq(data.line_items, 1, j), IsProductEntry))]

\* The discount after the phantom test made with quantity 1
TestedWithOne(entry, e) ==
    LET d == Declared(entry.discount_percent)
    IN  e.discount_percent =
            IF d > 0 /\ e.rate > 0 /\ e.amount > 0 /\ Abs(1 * e.rate - e.amount) < 100
            THEN 0 ELSE d

EmittedWithOne(raws, bills) ==
    \A i \in 1..Len(raws) :
        /\ \A k \in 1..Len(bills[i].line_items) : bills[i].line_items[k].quantity # 0
        /\ \A j \in 1..Len(raws[i].line_items) :
               LET entry == raws[i].line_items[j]
               IN  (IsProductEntry(entry) /\ HasNoQuantity(entry)) =>
                       LET e == LineItemOf(raws[i], bills[i], j)
                       IN  /\ e.quantity = 1
                           /\ BackfillAsClaimed(entry, e.amount, 1)
                           /\ TestedWithOne(entry, e)

\* The units the entries of this item add up to, an entry with no quantity
\* counting as one
RECURSIVE UnitsOf(_, _)
UnitsOf(entries, name) ==
    IF entries = <<>> THEN 0
    ELSE (IF /\ IsProductEntry(Head(entries))
             /\ ClaimNormalized(Head(entries).item_name.v) = name
          THEN QuantityOrOne(Head(entries)) ELSE 0)
         + UnitsOf(Tail(entries), name)

C28_NoQuantityIsOne ==
    /\ EmittedWithOne(purchase_raw, purchase_data)
    /\ EmittedWithOne(sales_raw, sales_data)
    /\ Analyzed =>
           \A i \in 1..Len(Result.items) :
               LET item == Result.items[i]
               IN  /\ item.purchased_qty = UnitsOf(EntriesOf(purchase_raw), item.item_name)
                   /\ item.sold_qty = UnitsOf(EntriesOf(sales_raw), item.item_name)

\* Cup bought with quantity 0 and with quantity 3, Pen sold with a null
\* quantity: 4 cups bought, 1 pen sold
C28_Witness ==
    /\ Analyzed
    /\ Len(purchase_raw) = 1
    /\ purchase_raw[1].line_items[1].quantity = Num(0)
    /\ purchase_data[1].line_items[1].quantity = 1
    /\ purchase_data[1].line_items[1].amount = 820
    /\ Len(sales_raw) = 1
    /\ sales_raw[1].line_items[1].quantity = None
    /\ sales_data[1].line_items[1].discount_percent = 0
    /\ \E i \in 1..Len(Result.items) :
           /\ Result.items[i].item_name = <<"c","u","p">>
           /\ Result.items[i].purchased_qty = 4
    /\ \E i \in 1..Len(Result.items) :
           /\ Result.items[i].item_name = <<"p","e","n">>
           /\ Result.items[i].sold_qty = 1

\* Mug with no quantity key, amount 20.00 at 20.00: the declared discount
\* is zeroed by the test with quantity 1
C28_PhantomWithOne ==
    /\ Len(purchase_raw) = 1
    /\ purchase_raw[1].line_items[1].quantity = Missing
    /\ purchase_data[1].line_items[1].quantity = 1
    /\ purchase_data[1].line_items[1].discount_percent = 0

(***************************************************************************)
(* C29: bill routing in analyze_bills.  Every uploaded file ends in        *)
(* exactly one of: skipped (empty bytes), failed_files (parse failed),     *)
(* purchase_data, sales_data.  A purchase file is never placed in          *)
(* sales_data; a sales file is placed in purchase_data iff auto_detect is  *)
(* on and its text has strictly more purchase keywords than sales          *)
(* keywords, otherwise in sales_data.  If both lists are empty the answer  *)
(* is 400 and analyze is never called.                                     *)
(***************************************************************************)
\* How many of the keywords occur in the lower-cased text
KeywordCount(text_content, keywords) ==
    LET lower == StrLower(text_content)
    IN  Cardinality({ kw \in keywords :
                        \E at \in 1..(Len(lower) - Len(kw) + 1) :
                            SubSeq(lower, at, at + Len(kw) - 1) = kw })

MorePurchaseKeywords(file) ==
    KeywordCount(file.text_content, PURCHASE_KEYWORDS)
        > KeywordCount(file.text_content, SALES_KEYWORDS)

\* The file whose turn it is, and the list it was uploaded in
FileInTurn ==
    IF handled < Len(request.purchase_files)
    THEN request.purchase_files[handled + 1]
    ELSE request.sales_files[handled - Len(request.purchase_files) + 1]

InPurchaseFiles == handled < Len(request.purchase_files)

\* Where the turn put the file: 1 for the list that grew by one
Grown(before, after) == Len(after) - Len(before)

RoutedOnce ==
    LET file == FileInTurn
        to_purchase == Grown(purchase_data, purchase_data')
        to_sales == Grown(sales_data, sales_data')
        to_failed == Grown(failed_files, failed_files')
        parsed == file.size > 0 /\ file.success
    IN  /\ {to_purchase, to_sales, to_failed} \subseteq {0, 1}
        /\ to_purchase + to_sales + to_failed = (IF file.size = 0 THEN 0 ELSE 1)
        /\ to_failed = 1 <=> (file.size > 0 /\ ~file.success)
        /\ InPurchaseFiles => to_sales = 0
        /\ ~InPurchaseFiles =>
               (to_purchase = 1 <=>
                    (parsed /\ request.auto_detect /\ MorePurchaseKeywords(file)))
        /\ SubSeq(purchase_data', 1, Len(purchase_data)) = purchase_data
        /\ SubSeq(sales_data', 1, Len(sales_data)) = sales_data
        /\ SubSeq(failed_files', 1, Len(failed_files)) = failed_files

NothingToAnalyze == purchase_data = <<>> /\ sales_data = <<>>

C29_BillRouting ==
    /\ [](NothingToAnalyze => ~Analyzed /\ calls = <<>>)
    /\ [][/\ handled' # handled => RoutedOnce
          /\ handled' = handled =>
                 /\ Len(purchase_data') = Len(purchase_data)
                 /\ Len(sales_data') = Len(sales_data)
                 /\ failed_files' = failed_files
          /\ (NothingToAnalyze /\ analysis' # analysis) =>
                 analysis' = [t |-> "rejected", v |-> 400]]_vars

\* A sales file sent to the purchases by its text, after a sales file with
\* as many keywords of each kind ("Wholesale"), kept with the sales
C29_Witness ==
    /\ Analyzed
    /\ request.auto_detect
    /\ request.purchase_files = <<>>
    /\ Len(request.sales_files) = 2
    /\ request.sales_files[1].text_content = TEXT_WHOLESALE
    /\ request.sales_files[2].text_content = TEXT_VENDOR_BILL_TO
    /\ Len(purchase_data) = 1
    /\ Len(sales_data) = 1

\* An empty file and a file that does not parse: 400
C29_Rejected ==
    /\ analysis.t = "rejected"
    /\ handled = 2
    /\ Len(failed_files) = 1

\* auto_detect off: a sales file with a supplier's text stays with the sales
C29_NotDetected ==
    /\ Analyzed
    /\ ~request.auto_detect
    /\ Len(request.sales_files) = 1
    /\ request.sales_files[1].text_content = TEXT_SUPPLIER
    /\ Len(sales_data) = 1

====
